---- MODULE Spec2Model ----
(***************************************************************************)
(* connect-wwwhisper: the Connect middleware that asks the wwwhisper       *)
(* backend whether a request may reach the protected application.          *)
(*                                                                         *)
(* Strings are sequences of tokens.  "/", ".", "?", ";", " " and "=" are   *)
(* the characters the code's regular expressions look at; every other      *)
(* token ("wwwhisper", "auth", "foo", ...) stands for the run of ordinary  *)
(* characters it spells.                                                   *)
(***************************************************************************)
EXTENDS Integers, Sequences, FiniteSets, TLC

VARIABLES
  env,          \* process.env: WWWHISPER_URL and WWWHISPER_DISABLE
  argument,     \* the argument wwwhisper() was called with
  wwwhisperURL, \* module global set by configure()
  http,         \* module global: the transport module chosen by configure()
  middleware,   \* what wwwhisper() returned, with its injectLogoutIframe
  req,          \* per request: the incoming request object
  res,          \* per request: the client response object
  pc,           \* per request: where the request's callbacks stand
  subReqs,      \* per request: the sub-requests issued to the backend, in order
  subRes,       \* per request: the backend response being delivered, if any
  replies,      \* per request: the backend responses received, in order
  appCalls,     \* per request: what the application saw each time it was invoked
  answered,     \* per request: what the application answered, if it did
  raw,          \* per request: the request as the server received it
  upload,       \* per request: the body the client sends and how far it got
  scenario,     \* which clients and which inputs this run of the server sees
  created,      \* the two globals as they were when the middleware was created
  probe         \* the argument and results of a pure function under check

vars == <<env, argument, wwwhisperURL, http, middleware, req, res, pc, subReqs,
          subRes, replies, appCalls, answered, raw, upload, scenario, created,
          probe>>

configVars == <<env, argument, wwwhisperURL, http, middleware, scenario, created>>

pipelineVars == <<env, argument, wwwhisperURL, http, middleware, req, res, pc,
                  subReqs, subRes, replies, appCalls, answered, raw, upload,
                  scenario, created>>

\* A string that is not there (JavaScript's undefined / a missing property).
Absent == <<"<undefined>">>

(***************************************************************************)
(* String helpers                                                          *)
(***************************************************************************)
Drop(s, n) == SubSeq(s, n + 1, Len(s))

Take(s, n) == SubSeq(s, 1, n)

\* s starts with p (a regular expression ^p with a literal p).
StartsWith(s, p) == Len(s) >= Len(p) /\ Take(s, Len(p)) = p

\* The token sequence p occurs in s at index i.
OccursAt(s, p, i) == i >= 1 /\ i + Len(p) - 1 <= Len(s)
                     /\ SubSeq(s, i, i + Len(p) - 1) = p

\* String.prototype.indexOf, 1-based; 0 when p does not occur.
IndexOf(s, p) ==
  IF \E i \in 1..Len(s) : OccursAt(s, p, i)
  THEN CHOOSE i \in 1..Len(s) :
         OccursAt(s, p, i) /\ \A j \in 1..(i - 1) : ~OccursAt(s, p, j)
  ELSE 0

\* String.prototype.lastIndexOf of one token, 1-based; 0 when absent.
LastIndexOf(s, t) ==
  IF \E i \in 1..Len(s) : s[i] = t
  THEN CHOOSE i \in 1..Len(s) : s[i] = t /\ \A j \in (i + 1)..Len(s) : s[j] # t
  ELSE 0

Contains(s, p) == IndexOf(s, p) # 0

(***************************************************************************)
(* Path normalizer                                                         *)
(***************************************************************************)
\* Longest path the exhaustive normalization check enumerates.
MaxPathLen == 6

PathTokens == {"/", ".", "a"}

SLASH == <<"/">>

\* uri(url): the parts of a request target, split at the first "?".
uri(url) ==
  LET q == IndexOf(url, <<"?">>) IN
  IF q = 0 THEN [path |-> url, query |-> <<>>]
  ELSE [path |-> Take(url, q - 1), query |-> Drop(url, q)]

\* URI.path()
UriPath(u) == u.path

\* URI.toString(): the path, then "?" and the query when there is one.
UriToString(u) ==
  IF u.query = <<>> THEN u.path ELSE u.path \o <<"?">> \o u.query

\* replace(/\/{2,}/g, '/'): a run of slashes becomes one slash.
RECURSIVE CollapseSlashes(_)
CollapseSlashes(s) ==
  IF s = <<>> THEN <<>>
  ELSE IF Len(s) >= 2 /\ s[1] = "/" /\ s[2] = "/" THEN CollapseSlashes(Tail(s))
  ELSE <<s[1]>> \o CollapseSlashes(Tail(s))

\* The output buffer without its last segment and the "/" before it.
RemoveLastSegment(output) ==
  IF LastIndexOf(output, "/") = 0 THEN <<>>
  ELSE Take(output, LastIndexOf(output, "/") - 1)

\* The first segment of the input buffer: its initial "/", if any, and what
\* follows up to the next "/".
FirstSegment(input) ==
  IF \E j \in 2..Len(input) : input[j] = "/"
  THEN Take(input, (CHOOSE j \in 2..Len(input) :
                      input[j] = "/" /\ \A k \in 2..(j - 1) : input[k] # "/") - 1)
  ELSE input

\* Mutant: once a "/../" at the root was dropped the rest is copied as it is.
RECURSIVE RemoveDotSegments_stopAtRoot(_, _)
RemoveDotSegments_stopAtRoot(input, output) ==
  IF input = <<>> THEN output
  ELSE IF StartsWith(input, <<"/", ".", "/">>)
       THEN RemoveDotSegments_stopAtRoot(Drop(input, 2), output)
  ELSE IF input = <<"/", ".">> THEN RemoveDotSegments_stopAtRoot(<<"/">>, output)
  ELSE IF StartsWith(input, <<"/", ".", ".", "/">>)
       THEN IF output = <<>> THEN Drop(input, 3)
            ELSE RemoveDotSegments_stopAtRoot(Drop(input, 3), RemoveLastSegment(output))
  ELSE RemoveDotSegments_stopAtRoot(Drop(input, Len(FirstSegment(input))),
                                    output \o FirstSegment(input))

\* remove_dot_segments of RFC 3986, section 5.2.4, on an absolute path: "/./"
\* and a final "/." become "/", "/../" becomes "/" and takes the last segment
\* of the output with it, every other segment moves to the output.  A ".."
\* that ends the path is not resolved: it moves to the output like any other
\* segment.
RECURSIVE RemoveDotSegments(_, _)
RemoveDotSegments(input, output) ==
  IF input = <<>> THEN output
  ELSE IF StartsWith(input, <<"/", ".", "/">>)
       THEN RemoveDotSegments(Drop(input, 2), output)
  ELSE IF input = <<"/", ".">> THEN RemoveDotSegments(<<"/">>, output)
  ELSE IF StartsWith(input, <<"/", ".", ".", "/">>)
       THEN RemoveDotSegments(Drop(input, 3), RemoveLastSegment(output))
  ELSE RemoveDotSegments(Drop(input, Len(FirstSegment(input))),
                         output \o FirstSegment(input))

\* remove_dot_segments as RFC 3986, section 5.2.4, defines it, a final "/.."
\* included: it becomes "/" and takes the last segment of the output with it.
RECURSIVE remove_dot_segments(_, _)
remove_dot_segments(input, output) ==
  IF input = <<>> THEN output
  ELSE IF StartsWith(input, <<"/", ".", "/">>)
       THEN remove_dot_segments(Drop(input, 2), output)
  ELSE IF input = <<"/", ".">> THEN remove_dot_segments(<<"/">>, output)
  ELSE IF StartsWith(input, <<"/", ".", ".", "/">>)
       THEN remove_dot_segments(Drop(input, 3), RemoveLastSegment(output))
  ELSE IF input = <<"/", ".", ".">>
       THEN remove_dot_segments(<<"/">>, RemoveLastSegment(output))
  ELSE remove_dot_segments(Drop(input, Len(FirstSegment(input))),
                           output \o FirstSegment(input))

\* The URL the specification's normalization yields: the empty path becomes
\* "/", runs of slashes collapse, dot segments are removed as RFC 3986 says,
\* the query string stays.
resolved(url) ==
  LET u == uri(url) IN
  UriToString([u EXCEPT !.path =
                 IF u.path = <<>> THEN SLASH
                 ELSE remove_dot_segments(CollapseSlashes(u.path), <<>>)])

\* URI.normalizePath() of the urijs dependency: the empty path becomes "/",
\* runs of slashes collapse and dot segments are removed.
normalizePath(u) ==
  IF u.path = <<>> THEN [u EXCEPT !.path = SLASH]
  ELSE [u EXCEPT !.path = RemoveDotSegments(CollapseSlashes(u.path), <<>>)]

\* Mutant: the URL is parsed but its path is not normalized.
normalizedUri_parseOnly(url) == uri(url)

\* normalizedUri(url)
normalizedUri(url) == normalizePath(uri(url))

\* The normalization the pipeline applies to a path: req.url after
\* "req.url = normalizedUri(req.url).toString()".
normalize(path) == UriToString(normalizedUri(path))

(***************************************************************************)
(* Header and cookie filter                                                *)
(***************************************************************************)
AUTH_COOKIES_PREFIX == <<"wwwhisper">>

AUTH_REQUEST_FORWARDED_HEADERS == <<"Accept", "Accept-Language">>

PROXY_REQUEST_FORWARDED_HEADERS ==
  <<"Accept", "Accept-Language", "Origin", "X-Csrftoken",
    "X-Requested-With", "Content-Type", "Content-Length">>

\* String.prototype.toLowerCase on the header names the code forwards.
toLowerCase(h) ==
  CASE h = "Accept" -> "accept"
    [] h = "Accept-Language" -> "accept-language"
    [] h = "Origin" -> "origin"
    [] h = "X-Csrftoken" -> "x-csrftoken"
    [] h = "X-Requested-With" -> "x-requested-with"
    [] h = "Content-Type" -> "content-type"
    [] h = "Content-Length" -> "content-length"
    [] OTHER -> h

\* The names of an incoming request's headers, as node stores them.
ReqHeaderNames ==
  {"accept", "accept-language", "origin", "x-csrftoken", "x-requested-with",
   "content-type", "content-length", "cookie", "host", "x-forwarded-proto",
   "authorization"}

\* The names a sub-request's header object can hold.
SubHeaderNames ==
  {"Accept", "Accept-Language", "Origin", "X-Csrftoken", "X-Requested-With",
   "Content-Type", "Content-Length", "Cookie", "Site-Url", "User-Agent"}

\* var headers = {}
NoSubHeaders == [h \in SubHeaderNames |-> Absent]

\* req.headers.hasOwnProperty(name)
hasOwnProperty(headers, name) == headers[name] # Absent

\* Where the first match of /wwwhisper-[^;]*(?:;|$)/ that starts at i ends.
MatchEnd(s, i) ==
  IF \E j \in (i + 2)..Len(s) : s[j] = ";"
  THEN CHOOSE j \in (i + 2)..Len(s) :
         s[j] = ";" /\ \A k \in (i + 2)..(j - 1) : s[k] # ";"
  ELSE Len(s)

\* cookies.match(AUTH_COOKIE_REGEXP): every non-overlapping match, left to
\* right; the empty sequence stands for null.
RECURSIVE MatchAuthCookies(_)
MatchAuthCookies(s) ==
  LET i == IndexOf(s, AUTH_COOKIES_PREFIX \o <<"-">>) IN
  IF i = 0 THEN <<>>
  ELSE <<SubSeq(s, i, MatchEnd(s, i))>> \o MatchAuthCookies(Drop(s, MatchEnd(s, i)))

\* Array.prototype.join
RECURSIVE Join(_, _)
Join(parts, sep) ==
  IF parts = <<>> THEN <<>>
  ELSE IF Len(parts) = 1 THEN parts[1]
  ELSE parts[1] \o sep \o Join(Tail(parts), sep)

copyAuthCookies(r, headers) ==
  IF hasOwnProperty(r.headers, "cookie")
     /\ MatchAuthCookies(r.headers["cookie"]) # <<>>
  THEN [headers EXCEPT !["Cookie"] = Join(MatchAuthCookies(r.headers["cookie"]), <<" ">>)]
  ELSE headers

RECURSIVE copyHeaders(_, _, _)
copyHeaders(r, headers, headersToForward) ==
  IF headersToForward = <<>> THEN headers
  ELSE LET h == Head(headersToForward)
           copied == IF hasOwnProperty(r.headers, toLowerCase(h))
                     THEN [headers EXCEPT ![h] = r.headers[toLowerCase(h)]]
                     ELSE headers
       IN copyHeaders(r, copied, Tail(headersToForward))

\* Mutant: the forwarded protocol is looked at before the connection.
SiteScheme_forwardedFirst(r) ==
  IF hasOwnProperty(r.headers, "x-forwarded-proto")
  THEN r.headers["x-forwarded-proto"]
  ELSE IF r.encrypted THEN <<"https">>
  ELSE <<"http">>

\* The scheme of the Site-Url header.
SiteScheme(r) ==
  IF r.encrypted THEN <<"https">>
  ELSE IF hasOwnProperty(r.headers, "x-forwarded-proto")
       THEN r.headers["x-forwarded-proto"]
  ELSE <<"http">>

USER_AGENT == <<"node-1.1.1">>

subRequestOptions(r, method, path, headersToForward) ==
  LET copied == copyAuthCookies(r, copyHeaders(r, NoSubHeaders, headersToForward))
      headers == [copied EXCEPT !["Site-Url"] = SiteScheme(r) \o <<"://">> \o r.headers["host"],
                                !["User-Agent"] = USER_AGENT]
  IN [hostname |-> wwwhisperURL.hostname, port |-> wwwhisperURL.port,
      path |-> path, auth |-> wwwhisperURL.auth, headers |-> headers,
      method |-> method]

authQuery(queriedPath) ==
  <<"/", "wwwhisper", "/", "auth", "/", "api", "/", "is-authorized", "/",
    "?", "path=">> \o queriedPath

(***************************************************************************)
(* Configuration                                                           *)
(***************************************************************************)
\* null, for the http global.
Null == "<null>"

\* null, for the wwwhisperURL global.
NullURL == [protocol |-> Absent, auth |-> Absent, hostname |-> Absent,
            port |-> Absent]

\* url.parse of "<protocol>//<auth>@<hostname>:<port>".
urlParse(urlStr) ==
  [protocol |-> <<urlStr[1]>>, auth |-> <<urlStr[3]>>, hostname |-> <<urlStr[5]>>,
   port |-> <<urlStr[7]>>]

\* configure() throws when neither environment variable is set.
configureThrows(e) ==
  e.WWWHISPER_URL = Absent /\ e.WWWHISPER_DISABLE = Absent

\* Mutant: the disable directive is looked at first.
configuredURL_disableFirst(e) ==
  IF e.WWWHISPER_DISABLE # Absent \/ e.WWWHISPER_URL = Absent THEN NullURL
  ELSE urlParse(e.WWWHISPER_URL)

\* The wwwhisperURL global after configure() returned.
configuredURL(e) ==
  IF e.WWWHISPER_URL = Absent THEN NullURL ELSE urlParse(e.WWWHISPER_URL)

\* The http global after configure() returned; old is its value before.
configuredHttp(e, old) ==
  IF e.WWWHISPER_URL = Absent THEN old
  ELSE IF urlParse(e.WWWHISPER_URL).protocol = <<"http:">> THEN "http"
  ELSE "https"

\* wwwhisper(injectLogoutIframe): the middleware it returns.
wwwhisper(e, injectLogoutIframe) ==
  IF configureThrows(e) THEN [kind |-> "threw", injectLogoutIframe |-> FALSE]
  ELSE IF configuredURL(e) = NullURL
       THEN [kind |-> "wwwhisperDisabled", injectLogoutIframe |-> FALSE]
  ELSE [kind |-> "isAuthorized",
        injectLogoutIframe |-> IF injectLogoutIframe = "undefined" THEN TRUE
                               ELSE injectLogoutIframe = "true"]

(***************************************************************************)
(* Response injector                                                       *)
(***************************************************************************)
NO_ENCODING == <<"identity">>

\* Mutant: the content encoding is not looked at.
shouldInject_anyEncoding(r) ==
  /\ r.headers["content-type"] # Absent
  /\ Contains(r.headers["content-type"], <<"text/html">>)

shouldInject(r) ==
  LET contentType == r.headers["content-type"]
      contentEncoding == IF r.headers["content-encoding"] = Absent THEN NO_ENCODING
                         ELSE r.headers["content-encoding"]
  IN /\ contentType # Absent
     /\ contentEncoding = NO_ENCODING
     /\ Contains(contentType, <<"text/html">>)

SCRIPT == <<"<script type=\"text/javascript\" src=\"/wwwhisper/auth/iframe.js\">",
            "</script>", "\n">>

\* The end of the line that starts at or contains index i ("." matches no "\n").
LineEnd(s, i) ==
  IF \E j \in i..Len(s) : s[j] = "\n"
  THEN (CHOOSE j \in i..Len(s) : s[j] = "\n" /\ \A k \in i..(j - 1) : s[k] # "\n") - 1
  ELSE Len(s)

\* Where /(.*)<\/body>/ finds its closing tag: the last one of the first line
\* that has one; 0 when no line has one.
RECURSIVE BodyTagFrom(_, _)
BodyTagFrom(s, i) ==
  IF i > Len(s) THEN 0
  ELSE LET e == LineEnd(s, i)
           tags == {j \in i..e : s[j] = "</body>"}
       IN IF tags # {} THEN CHOOSE j \in tags : \A k \in tags : k <= j
          ELSE BodyTagFrom(s, e + 2)

\* Bytes that are no valid UTF-8 where they stand (a Latin-1 letter, the first
\* byte of a PNG file), and the character a UTF-8 decoder puts in their place.
INVALID_UTF8 == {"<E9>", "<89>"}

REPLACEMENT_CHARACTER == "<U+FFFD>"

\* Buffer.prototype.toString() and a stream after setEncoding('utf8'): the
\* bytes decoded as UTF-8.  Written back to a response the string is encoded
\* as UTF-8 again, the replacement character as its own three bytes.
toString(data) ==
  [i \in 1..Len(data) |->
     IF data[i] \in INVALID_UTF8 THEN REPLACEMENT_CHARACTER ELSE data[i]]

\* inject(callback, data, req, res): the data handed to the callback.
inject(data) ==
  LET str == toString(data)
      at == BodyTagFrom(str, 1)
  IN IF at = 0 THEN str
     ELSE Take(str, at - 1) \o SCRIPT \o Drop(str, at - 1)

\* Buffer.concat of the chunks written.
RECURSIVE Concat(_)
Concat(chunks) ==
  IF chunks = <<>> THEN <<>> ELSE Head(chunks) \o Concat(Tail(chunks))

(***************************************************************************)
(* The state of one request, and the response object                       *)
(***************************************************************************)
ResHeaderNames == {"user", "location", "content-type", "content-encoding"}

NoResHeaders == [h \in ResHeaderNames |-> Absent]

NoReq == [url |-> <<>>, method |-> "", headers |-> [h \in ReqHeaderNames |-> Absent],
          encrypted |-> FALSE, remoteUser |-> Absent]

\* The response object: what the client was sent (headers, statusCode, body,
\* the number of heads written and of ends), and the state the injector keeps
\* once it wraps the object (whether the body is intercepted, and the buffer
\* that collects an intercepted body).
NewRes == [headers |-> NoResHeaders, statusCode |-> 0, heads |-> 0,
           body |-> <<>>, ends |-> 0, injector |-> FALSE,
           intercepted |-> "unset", buffer |-> <<>>]

\* The body of the incoming request: what the client sends in all (body), the
\* chunks still to arrive (incoming), the chunks that arrived and wait in the
\* paused stream (buffered), whether the end of the body arrived (ended) and
\* the sub-request the stream is piped into (dest, 0 for none).
Upload(body) == [body |-> body, incoming |-> body, buffered |-> <<>>,
                 ended |-> body = <<>>, dest |-> 0]

NoSubRes == [kind |-> "none", statusCode |-> 0, headers |-> NoResHeaders,
             chunks |-> <<>>]

\* An exception nothing catches ends the process: request r and every other
\* request in flight lose their connection, a response that was ended stays
\* as it is.
uncaughtException(r) ==
  [q \in DOMAIN pc |->
     IF q = r \/ pc[q] \notin {"idle", "done"} THEN "crashed" ELSE pc[q]]

\* The state of request r as one record, and the assignment of such a record.
St(r) == [req |-> req[r], res |-> res[r], pc |-> pc[r], subReqs |-> subReqs[r],
          subRes |-> subRes[r], replies |-> replies[r], appCalls |-> appCalls[r],
          answered |-> answered[r], upload |-> upload[r]]

Put(r, st) ==
  /\ req' = [req EXCEPT ![r] = st.req]
  /\ res' = [res EXCEPT ![r] = st.res]
  /\ pc' = IF st.pc = "crashed" THEN uncaughtException(r)
           ELSE [pc EXCEPT ![r] = st.pc]
  /\ subReqs' = [subReqs EXCEPT ![r] = st.subReqs]
  /\ subRes' = [subRes EXCEPT ![r] = st.subRes]
  /\ replies' = [replies EXCEPT ![r] = st.replies]
  /\ appCalls' = [appCalls EXCEPT ![r] = st.appCalls]
  /\ answered' = [answered EXCEPT ![r] = st.answered]
  /\ upload' = [upload EXCEPT ![r] = st.upload]

\* Mutant: the status is written, the headers are dropped.
writeHead_statusOnly(st, status, headers) ==
  [st EXCEPT !.res.statusCode = status, !.res.heads = @ + 1]

\* res.setHeader for every header the object holds, then res.writeHead(status).
writeHead(st, status, headers) ==
  [st EXCEPT !.res.headers = [h \in ResHeaderNames |->
                                IF headers[h] # Absent THEN headers[h] ELSE @[h]],
             !.res.statusCode = status,
             !.res.heads = @ + 1]

\* Mutant: the decision is taken again at every write and at the end.
interceptCheck_everyWrite(response) ==
  [response EXCEPT !.intercepted =
     IF response.injector /\ shouldInject(response) THEN "yes" ELSE "no"]

\* The injection decision of a wrapped response, taken once, at the first
\* write or end, from the headers as they stand then.
interceptCheck(response) ==
  IF response.intercepted # "unset" THEN response
  ELSE [response EXCEPT !.intercepted =
          IF response.injector /\ shouldInject(response) THEN "yes" ELSE "no"]

\* res.write(chunk): an intercepted body is collected, any other is sent.
resWrite(st, chunk) ==
  LET response == interceptCheck(st.res) IN
  [st EXCEPT !.res = IF response.intercepted = "yes"
                     THEN [response EXCEPT !.buffer = Append(@, chunk)]
                     ELSE [response EXCEPT !.body = Append(@, chunk)]]

\* res.end(): an intercepted body goes through inject() and is sent as one
\* chunk.
resEnd(st) ==
  LET response == interceptCheck(st.res) IN
  [st EXCEPT !.res = IF response.intercepted = "yes"
                     THEN [response EXCEPT
                             !.body = Append(@, inject(Concat(response.buffer))),
                             !.buffer = <<>>,
                             !.ends = @ + 1]
                     ELSE [response EXCEPT !.ends = @ + 1]]

\* The function reportError(res, msg) returns, run on an 'error' event.  Once
\* the head of the response was written res.setHeader throws from inside the
\* event listener: nothing catches it and the response is never ended.
reportError(st, msg) ==
  IF st.res.heads > 0 THEN [st EXCEPT !.pc = "crashed"]
  ELSE LET head == writeHead(st, 500, [NoResHeaders EXCEPT
                                         !["content-type"] = <<"text/plain">>])
       IN [resEnd(resWrite(head, msg)) EXCEPT !.pc = "done"]

(***************************************************************************)
(* The handlers of the request chain                                       *)
(***************************************************************************)
WWWHISPER_PREFIX == <<"/", "wwwhisper", "/">>

\* /^\/wwwhisper\/auth\//
LOGIN_PREFIX == <<"/", "wwwhisper", "/", "auth", "/">>

\* Mutant: only the login sub-path is proxied.
isProxied_authOnly(url) == StartsWith(url, <<"/", "wwwhisper", "/", "auth", "/">>)

\* req.url.search(/^\/wwwhisper\//) !== -1
isProxied(url) == StartsWith(url, WWWHISPER_PREFIX)

\* Mutant: only the login resource itself bypasses the authorization query.
isLoginRequest_loginOnly(url) ==
  StartsWith(url, <<"/", "wwwhisper", "/", "auth", "/", "api", "/", "login">>)

\* req.url.search(/^\/wwwhisper\/auth\//) !== -1
isLoginRequest(url) == StartsWith(url, LOGIN_PREFIX)

\* Mutant: every status below 400 counts as a grant.
isGranted_below400(statusCode) == statusCode < 400

\* authRes.statusCode === 200
isGranted(statusCode) == statusCode = 200

\* Mutant: every sub-request is sent twice.
httpRequest_twice(st, kind, options, body) ==
  LET subReq == [kind |-> kind, options |-> options, body |-> body,
                 failed |-> FALSE, module |-> http, received |-> <<>>,
                 held |-> 0, ended |-> body = "empty"]
  IN [st EXCEPT !.subReqs = @ \o <<subReq, subReq>>]

\* http.request(options, callback): the sub-request is on its way.  body is
\* "empty" when the code ends it at once and "piped" when it pipes req into
\* it; received is the body the backend got so far, ended whether it got the
\* end of the body.
httpRequest(st, kind, options, body) ==
  [st EXCEPT !.subReqs = Append(@, [kind |-> kind, options |-> options,
                                    body |-> body, failed |-> FALSE,
                                    module |-> http, received |-> <<>>,
                                    held |-> 0, ended |-> body = "empty"])]

\* Mutant: what arrived before the pipe was attached is lost.
pipe_fromNow(st) ==
  [st EXCEPT !.subReqs[Len(st.subReqs)].ended = st.upload.ended,
             !.upload.buffered = <<>>,
             !.upload.dest = Len(st.subReqs)]

\* req.pipe(subReq, {end: true}) into the sub-request just issued: the stream
\* starts to flow, the chunks it held go to the sub-request in their order
\* (held counts them), and the sub-request is ended if the body is over.
pipe(st) ==
  [st EXCEPT !.subReqs[Len(st.subReqs)].received = st.upload.buffered,
             !.subReqs[Len(st.subReqs)].held = Len(st.upload.buffered),
             !.subReqs[Len(st.subReqs)].ended = st.upload.ended,
             !.upload.buffered = <<>>,
             !.upload.dest = Len(st.subReqs)]

\* A chunk of the incoming body arrives: it goes to the sub-request the
\* stream is piped into, or waits in the stream.
onReqData(st) ==
  LET chunk == Head(st.upload.incoming)
      took == [st EXCEPT !.upload.incoming = Tail(@)]
  IN IF st.upload.dest = 0
     THEN [took EXCEPT !.upload.buffered = Append(@, chunk)]
     ELSE [took EXCEPT !.subReqs[st.upload.dest].received = Append(@, chunk)]

\* The incoming body is over: a piped sub-request is ended.
onReqEnd(st) ==
  IF st.upload.dest = 0 THEN [st EXCEPT !.upload.ended = TRUE]
  ELSE [st EXCEPT !.upload.ended = TRUE,
                  !.subReqs[st.upload.dest].ended = TRUE]

\* Sub-request i emits 'error'.
onError(st, i) == [st EXCEPT !.subReqs[i].failed = TRUE]

\* The outer next(): the protected application is invoked and sees the request
\* and the response as they are now.
appNext(st) ==
  [st EXCEPT !.appCalls = Append(@, [url |-> st.req.url,
                                     remoteUser |-> st.req.remoteUser,
                                     userHeader |-> st.res.headers["user"],
                                     injector |-> st.res.injector]),
             !.pc = "app"]

\* Mutant: a proxied request gets the headers of an authorization query.
authorized_authHeaders(st, viaNext) ==
  IF isProxied(st.req.url)
  THEN [pipe(httpRequest(st, "proxy",
                         subRequestOptions(st.req, st.req.method, st.req.url,
                                           AUTH_REQUEST_FORWARDED_HEADERS),
                         "piped"))
          EXCEPT !.pc = "proxyWait"]
  ELSE viaNext

\* authorized(req, res, next); viaNext is the state next() leads to.  With
\* the wwwhisperURL global set to null subRequestOptions throws a TypeError,
\* here in the callback of the authorization query, where nothing catches it.
authorized(st, viaNext) ==
  IF isProxied(st.req.url) /\ wwwhisperURL = NullURL
  THEN [st EXCEPT !.pc = "crashed"]
  ELSE IF isProxied(st.req.url)
  THEN [pipe(httpRequest(st, "proxy",
                         subRequestOptions(st.req, st.req.method, st.req.url,
                                           PROXY_REQUEST_FORWARDED_HEADERS),
                         "piped"))
          EXCEPT !.pc = "proxyWait"]
  ELSE viaNext

\* The injector wraps the response object and calls next().
injector(st) == [st EXCEPT !.res.injector = TRUE]

\* chain(req, res, handlers): next() with idx already advanced to idx.
RECURSIVE chainNext(_, _, _)
chainNext(st, handlers, idx) ==
  IF idx = Len(handlers) + 1 THEN st
  ELSE IF idx = Len(handlers) THEN appNext(st)
  ELSE IF handlers[idx] = "injector" THEN chainNext(injector(st), handlers, idx + 1)
  ELSE authorized(st, chainNext(st, handlers, idx + 1))

chain(st, handlers) == chainNext(st, handlers, 1)

\* Mutant: the injector is in the chain whatever the argument.
callChain_alwaysInject(injectLogoutIframe) == <<"injector", "authorized", "next">>

\* callChain
callChain(injectLogoutIframe) ==
  IF injectLogoutIframe THEN <<"injector", "authorized", "next">>
  ELSE <<"authorized", "next">>

\* Mutant: the request keeps the URL it arrived with.
setUrl_keepRaw(st, u) == st

\* req.url = uri.toString()
setUrl(st, u) == [st EXCEPT !.req.url = UriToString(u)]

\* Mutant: the authorization query asks about the whole URL.
queriedPath_withQuery(u) == UriToString(u)

\* The path the authorization query asks about: uri.path()
queriedPath(u) == UriPath(u)

\* Mutant: the authorization query gets the headers of a proxied request.
isAuthorized_proxyHeaders(st) ==
  LET u == normalizedUri(st.req.url)
      st1 == setUrl(st, u)
  IN IF isLoginRequest(st1.req.url)
     THEN authorized(st1, appNext(st1))
     ELSE [httpRequest(st1, "auth",
                       subRequestOptions(st1.req, "GET", authQuery(queriedPath(u)),
                                         PROXY_REQUEST_FORWARDED_HEADERS),
                       "empty")
             EXCEPT !.pc = "authWait"]

\* isAuthorized(req, res, next) up to the point where it waits for the backend.
\* With the wwwhisperURL global set to null subRequestOptions throws a
\* TypeError on either branch: the middleware throws to its caller.
isAuthorized(st) ==
  LET u == normalizedUri(st.req.url)
      st1 == setUrl(st, u)
  IN IF wwwhisperURL = NullURL THEN [st1 EXCEPT !.pc = "threw"]
     ELSE IF isLoginRequest(st1.req.url)
     THEN authorized(st1, appNext(st1))
     ELSE [httpRequest(st1, "auth",
                       subRequestOptions(st1.req, "GET", authQuery(queriedPath(u)),
                                         AUTH_REQUEST_FORWARDED_HEADERS),
                       "empty")
             EXCEPT !.pc = "authWait"]

\* Mutant: the disabled middleware normalizes the URL before it calls next().
wwwhisperDisabled_normalizes(st) ==
  appNext(setUrl(st, normalizedUri(st.req.url)))

\* wwwhisperDisabled(req, res, next)
wwwhisperDisabled(st) == appNext(st)

\* Mutant: the user is attached to the request only.
attachUser_requestOnly(st, user) ==
  IF user # Absent THEN [st EXCEPT !.req.remoteUser = user] ELSE st

\* var user = authRes.headers['user'], attached when it is defined.
attachUser(st, user) ==
  IF user # Absent
  THEN [st EXCEPT !.req.remoteUser = user, !.res.headers["user"] = user]
  ELSE st

\* Mutant: the request goes down the chain whatever the backend answered.
authCallback_alwaysChain(st, authRes, injectLogoutIframe) ==
  chain(attachUser([st EXCEPT !.replies = Append(@, authRes)],
                   authRes.headers["user"]),
        callChain(injectLogoutIframe))

\* Mutant: the user is attached before the status is looked at.
authCallback_attachFirst(st, authRes, injectLogoutIframe) ==
  LET got == attachUser([st EXCEPT !.replies = Append(@, authRes)],
                        authRes.headers["user"])
  IN IF isGranted(authRes.statusCode)
     THEN chain(got, callChain(injectLogoutIframe))
     ELSE [writeHead(got, authRes.statusCode, authRes.headers)
             EXCEPT !.pc = "authRelay", !.subRes = authRes]

\* The callback of the authorization query, given the backend's response.
authCallback(st, authRes, injectLogoutIframe) ==
  LET got == [st EXCEPT !.replies = Append(@, authRes)] IN
  IF isGranted(authRes.statusCode)
  THEN chain(attachUser(got, authRes.headers["user"]),
             callChain(injectLogoutIframe))
  ELSE [writeHead(got, authRes.statusCode, authRes.headers)
          EXCEPT !.pc = "authRelay", !.subRes = authRes]

\* The callback of a proxied sub-request, given the backend's response.  On
\* a response whose head was written already res.setHeader throws.
proxyCallback(st, proxyRes) ==
  LET got == [st EXCEPT !.replies = Append(@, proxyRes)] IN
  IF st.res.heads > 0 THEN [got EXCEPT !.pc = "crashed"]
  ELSE [writeHead(got, proxyRes.statusCode, proxyRes.headers)
          EXCEPT !.pc = "proxyRelay", !.subRes = proxyRes]

\* The 'error' listener of the authorization query, run after the query was
\* granted: the request is with the application or with the proxied
\* sub-request, and stays there unless the listener throws.
onLateAuthError(st) ==
  LET reported == reportError(onError(st, 1), <<"auth request failed">>) IN
  [reported EXCEPT !.pc = IF @ = "crashed" THEN @ ELSE st.pc]

\* on('data'): res.write(chunk)
onData(st) ==
  [resWrite(st, Head(st.subRes.chunks)) EXCEPT !.subRes.chunks = Tail(@)]

\* on('data') of a proxied response, after subRes.setEncoding('utf8'): the
\* chunk arrives decoded and res.write(chunk) sends it.
onProxyData(st) ==
  [resWrite(st, toString(Head(st.subRes.chunks))) EXCEPT !.subRes.chunks = Tail(@)]

\* on('end'): res.end()
onEnd(st) == [resEnd(st) EXCEPT !.pc = "done"]

(***************************************************************************)
(* The application's answer                                                *)
(***************************************************************************)
RECURSIVE writeAll(_, _)
writeAll(st, chunks) ==
  IF chunks = <<>> THEN st ELSE writeAll(resWrite(st, Head(chunks)), Tail(chunks))

\* The application answers: res.writeHead with its headers, res.write for each
\* of its chunks, res.end.
appRespond(st, appRes) ==
  [resEnd(writeAll(writeHead(st, appRes.statusCode, appRes.headers), appRes.chunks))
     EXCEPT !.pc = "done", !.answered = appRes]

\* The application answers step by step: res.setHeader(name, value).
appSetHeader(st, name, value) == [st EXCEPT !.res.headers[name] = value]

\* The head goes out with status 200 and the headers as they stand.
implicitHeader(st) == [st EXCEPT !.res.statusCode = 200, !.res.heads = @ + 1]

\* The application starts the body: what it has set by now is remembered.
appStart(st) ==
  IF st.answered.kind = "app" THEN st
  ELSE [st EXCEPT !.answered = [kind |-> "app", statusCode |-> 200,
                                headers |-> st.res.headers, chunks |-> <<>>]]

\* res.write(chunk) of the application: a body that is not intercepted takes
\* the head out with its first chunk.
appWrite(st, chunk) ==
  LET written == resWrite(appStart(st), chunk)
      flushed == IF written.res.intercepted = "no" /\ written.res.heads = 0
                 THEN implicitHeader(written) ELSE written
  IN [flushed EXCEPT !.answered.chunks = Append(@, chunk)]

\* res.end() of the application: the head goes out now if it has not yet.
appEnd(st) ==
  LET ended == resEnd(appStart(st))
      flushed == IF ended.res.heads = 0 THEN implicitHeader(ended) ELSE ended
  IN [flushed EXCEPT !.pc = "done"]

(***************************************************************************)
(* The environment: configurations, requests and backend responses         *)
(***************************************************************************)
HTTP_URL == <<"http:", "//", "alice:secret", "@", "localhost", ":", "10000">>

HTTPS_URL == <<"https:", "//", "alice:secret", "@", "wwwhisper.example", ":", "443">>

Envs ==
  {[WWWHISPER_URL |-> HTTP_URL, WWWHISPER_DISABLE |-> Absent],
   [WWWHISPER_URL |-> HTTPS_URL, WWWHISPER_DISABLE |-> <<"1">>],
   [WWWHISPER_URL |-> Absent, WWWHISPER_DISABLE |-> <<"1">>],
   [WWWHISPER_URL |-> Absent, WWWHISPER_DISABLE |-> Absent]}

RequestIds == {"r1", "r2"}

\* The clients that send a request in a run: one alone, or two at a time.
Clients(s) == IF s = "concurrent" THEN {"r1", "r2"} ELSE {"r1"}

Methods == {"GET", "POST"}

TEST_USER == <<"foo@example.com">>

\* The request targets the server hands to the middleware.
RawUrls ==
  {<<"/">>,
   <<"/", "foo", "/", "bar">>,
   <<"/", "foo", "/", "?", "what=xyz">>,
   <<"/", "foo", "/", ".", "/", "bar", "/", ".", ".", "/", ".", ".", "/", "bar">>,
   <<"/", "/">>,
   <<"/", "foo", "/", "bar", "/", ".", ".">>,
   <<"/", "wwwhisper", "/", "auth", "/", "api", "/", "login">>,
   <<"/", "wwwhisper", "/", "auth", "/", "api", "/", "login", "?", "next=/foo">>,
   <<"/", "wwwhisper", "/", "admin", "/", "api", "/", "users">>,
   <<"/", "wwwhisper", "/", "auth", "/", ".", ".", "/", ".", ".", "/", "foo", "/">>,
   <<"/", "foo", "/", ".", ".", "/", "wwwhisper", "/", "auth", "/", "x">>,
   <<"/", "wwwhisper">>,
   <<"/", "wwwhisper", "/", "auth">>,
   <<"/", "wwwhisper", "/", "auth", "/", ".", ".">>}

BaseHeaders == [NoReq.headers EXCEPT !["host"] = <<"localhost:9999">>]

AUTH_COOKIE == <<"wwwhisper", "-", "auth", "=", "xyz">>

CSRF_COOKIE == <<"wwwhisper", "-", "csrftoken", "=", "abc">>

\* The header sets and connections of the incoming requests.
ReqShapes ==
  {[headers |-> BaseHeaders, encrypted |-> FALSE],
   [headers |-> [BaseHeaders EXCEPT !["cookie"] = AUTH_COOKIE \o <<";", " ">> \o CSRF_COOKIE,
                                    !["x-forwarded-proto"] = <<"http">>],
    encrypted |-> TRUE],
   [headers |-> [BaseHeaders EXCEPT
       !["cookie"] = <<"session", "=", "123", ";", " ">> \o AUTH_COOKIE
                     \o <<";", " ", "settings", "=", "foobar", ";", " ">> \o CSRF_COOKIE,
       !["x-forwarded-proto"] = <<"https">>],
    encrypted |-> FALSE],
   [headers |-> [BaseHeaders EXCEPT !["cookie"] = <<"session", "=", "123", ";">>,
                                    !["accept-language"] = <<"en-US">>,
                                    !["origin"] = <<"https://localhost:9999">>,
                                    !["x-csrftoken"] = <<"abc">>,
                                    !["x-requested-with"] = <<"XMLHttpRequest">>,
                                    !["content-type"] = <<"application/json">>,
                                    !["content-length"] = <<"0">>,
                                    !["authorization"] = <<"Basic app-secret">>],
    encrypted |-> FALSE],
   [headers |-> [BaseHeaders EXCEPT
       !["cookie"] = <<"session", "=", "wwwhisper", "-", "123">>,
       !["accept"] = <<"text/html">>],
    encrypted |-> FALSE]}

Reply(statusCode, headers, chunks) ==
  [kind |-> "none", statusCode |-> statusCode, headers |-> headers,
   chunks |-> chunks]

\* What the backend answers to an authorization query.
AuthResponses ==
  {Reply(200, [NoResHeaders EXCEPT !["user"] = TEST_USER], <<>>),
   Reply(200, NoResHeaders, <<>>),
   Reply(401, NoResHeaders, << <<"Login required">> >>),
   Reply(403, [NoResHeaders EXCEPT !["content-type"] = <<"text/plain">>],
         << <<"Not">>, <<"authorized">> >>),
   Reply(302, [NoResHeaders EXCEPT !["location"] = <<"https://localhost:9999/foo/bar">>], <<>>),
   Reply(400, NoResHeaders, << <<"invalid request">> >>),
   Reply(403, [NoResHeaders EXCEPT !["user"] = TEST_USER], << <<"Not authorized">> >>)}

\* What the backend answers to a proxied request.
ProxyResponses ==
  {Reply(200, [NoResHeaders EXCEPT !["content-type"] = <<"text/plain">>],
         << <<"Admin page">> >>),
   Reply(200, [NoResHeaders EXCEPT !["content-type"] = <<"text/html">>],
         << <<"<html><body>", "Login">>, <<"</body>", "</html>">> >>),
   Reply(200, [NoResHeaders EXCEPT !["content-type"] = <<"image/png">>],
         << <<"<89>", "PNG">>, <<"IDAT">> >>),
   Reply(404, NoResHeaders, <<>>)}

TEST_HTML_BODY == <<"<html><body><b>", "Hello World", "</body>", "</html>">>

\* What the protected application answers.
AppResponses ==
  {Reply(200, [NoResHeaders EXCEPT !["content-type"] = <<"text/html">>],
         << TEST_HTML_BODY >>),
   Reply(200, [NoResHeaders EXCEPT !["content-type"] = <<"text/plain">>],
         << TEST_HTML_BODY >>),
   Reply(200, [NoResHeaders EXCEPT !["content-type"] = <<"text/html">>,
                                   !["content-encoding"] = <<"gzip">>],
         << TEST_HTML_BODY >>),
   Reply(200, [NoResHeaders EXCEPT !["content-type"] = <<"text/html">>],
         << <<"abc">>, <<"def">>, <<"ghi">> >>),
   Reply(200, [NoResHeaders EXCEPT !["content-type"] = <<"text/html">>,
                                   !["content-encoding"] = <<"identity">>],
         << TEST_HTML_BODY >>),
   Reply(200, [NoResHeaders EXCEPT !["content-type"] = <<"text/html">>],
         << <<"<html><body>", "<script>t = '", "</body>", "'</script>", "\n">>,
            <<"Hello World", "</body>", "</html>">> >>),
   Reply(200, [NoResHeaders EXCEPT
                 !["content-type"] = <<"text/html", ";", " ", "charset=iso-8859-1">>],
         << <<"<p>", "caf", "<E9>">>, <<"</p>">> >>),
   Reply(404, NoResHeaders, << <<"Cannot GET">> >>)}

OTHER_USER == <<"bar@example.com">>

\* The inputs of a run: everything above when one client is alone, a few of
\* each kind otherwise.
Urls(s) ==
  IF s = "single" THEN RawUrls
  ELSE IF s = "upload"
  THEN {<<"/", "foo", "/", "bar">>,
        <<"/", "foo", "/", ".", ".", "/", "wwwhisper", "/", "admin", "/", "api",
          "/", "users", "?", "what=xyz">>,
        <<"/", "wwwhisper", "/", "auth", "/", "api", "/", "login", "?", "next=/foo">>}
  ELSE {<<"/", "foo", "/", "bar">>,
        <<"/", "wwwhisper", "/", "admin", "/", "api", "/", "users">>,
        <<"/", "wwwhisper", "/", "auth", "/", "api", "/", "login">>}

MethodsOf(s) == IF s = "single" THEN Methods ELSE {"POST"}

\* The bodies of the incoming requests, in chunks: none, or a form in two.
Bodies(s) ==
  IF s = "upload" THEN {<< <<"email=foo@example.com">>, <<"&path=/foo/">> >>}
  ELSE {<<>>}

Shapes(s) ==
  IF s = "single" THEN ReqShapes
  ELSE {[headers |-> [BaseHeaders EXCEPT !["cookie"] = AUTH_COOKIE],
         encrypted |-> FALSE]}

AuthResponsesOf(s) ==
  IF s = "single" THEN AuthResponses
  ELSE {Reply(200, [NoResHeaders EXCEPT !["user"] = TEST_USER], <<>>),
        Reply(200, [NoResHeaders EXCEPT !["user"] = OTHER_USER], <<>>),
        Reply(401, NoResHeaders, << <<"Login required">> >>)}

ProxyResponsesOf(s) ==
  IF s = "single" THEN ProxyResponses
  ELSE {Reply(200, [NoResHeaders EXCEPT !["content-type"] = <<"text/plain">>],
              << <<"Admin page">> >>)}

AppResponsesOf(s) ==
  IF s = "single" THEN AppResponses
  ELSE {Reply(200, [NoResHeaders EXCEPT !["content-type"] = <<"text/html">>],
              << TEST_HTML_BODY >>)}

NoProbe == [fn |-> "none", arg |-> <<>>, once |-> <<>>, twice |-> <<>>, stage |-> 0]

(***************************************************************************)
(* The pipeline as a state machine                                         *)
(***************************************************************************)
\* The state once the application has called wwwhisper(injectLogoutIframe).
PipelineInit ==
  \E e \in Envs, injectLogoutIframe \in {"undefined", "true", "false"} :
    /\ env = e
    /\ argument = injectLogoutIframe
    /\ wwwhisperURL = IF configureThrows(e) THEN NullURL ELSE configuredURL(e)
    /\ http = IF configureThrows(e) THEN Null ELSE configuredHttp(e, Null)
    /\ middleware = wwwhisper(e, injectLogoutIframe)
    /\ created = [wwwhisperURL |-> wwwhisperURL, http |-> http]
    /\ req = [r \in RequestIds |-> NoReq]
    /\ res = [r \in RequestIds |-> NewRes]
    /\ pc = [r \in RequestIds |-> "idle"]
    /\ subReqs = [r \in RequestIds |-> <<>>]
    /\ subRes = [r \in RequestIds |-> NoSubRes]
    /\ replies = [r \in RequestIds |-> <<>>]
    /\ appCalls = [r \in RequestIds |-> <<>>]
    /\ answered = [r \in RequestIds |-> NoSubRes]
    /\ raw = [r \in RequestIds |-> NoReq]
    /\ upload = [r \in RequestIds |-> Upload(<<>>)]

Init == PipelineInit /\ scenario = "single" /\ probe = NoProbe

\* The server hands a request to the middleware.
Request(r) ==
  /\ r \in Clients(scenario)
  /\ pc[r] = "idle"
  /\ \A q \in RequestIds : pc[q] # "crashed"
  /\ middleware.kind # "threw"
  /\ \E url \in Urls(scenario), method \in MethodsOf(scenario),
        shape \in Shapes(scenario), body \in Bodies(scenario) :
       LET arrived == [url |-> url, method |-> method, headers |-> shape.headers,
                       encrypted |-> shape.encrypted, remoteUser |-> Absent]
           st == [St(r) EXCEPT !.req = arrived, !.upload = Upload(body)]
       IN /\ raw' = [raw EXCEPT ![r] = arrived]
          /\ Put(r, IF middleware.kind = "isAuthorized" THEN isAuthorized(st)
                    ELSE wwwhisperDisabled(st))
  /\ UNCHANGED <<configVars, probe>>

\* The backend's response to the authorization query arrives.
AuthResponse(r) ==
  /\ pc[r] = "authWait"
  /\ \E authRes \in AuthResponsesOf(scenario) :
       Put(r, authCallback(St(r), [authRes EXCEPT !.kind = "auth"],
                           middleware.injectLogoutIframe))
  /\ UNCHANGED <<configVars, raw, probe>>

\* A chunk of the denial's body arrives.
AuthData(r) ==
  /\ pc[r] = "authRelay"
  /\ subRes[r].chunks # <<>>
  /\ Put(r, onData(St(r)))
  /\ UNCHANGED <<configVars, raw, probe>>

\* The denial's body ends.
AuthEnd(r) ==
  /\ pc[r] = "authRelay"
  /\ subRes[r].chunks = <<>>
  /\ Put(r, onEnd(St(r)))
  /\ UNCHANGED <<configVars, raw, probe>>

\* The authorization query fails: before any response, or while the body of
\* a denial is on its way.
AuthError(r) ==
  /\ pc[r] \in {"authWait", "authRelay"}
  /\ Put(r, reportError(onError(St(r), 1), <<"auth request failed">>))
  /\ UNCHANGED <<configVars, raw, probe>>

\* The connection of a granted authorization query fails.  The code never
\* reads the body of a 200, so the backend's response is never over and the
\* failure can come at any later time.
LateAuthError(r) ==
  /\ pc[r] \in {"app", "proxyWait", "proxyRelay", "done"}
  /\ subReqs[r] # <<>>
  /\ subReqs[r][1].kind = "auth"
  /\ ~subReqs[r][1].failed
  /\ replies[r] # <<>>
  /\ isGranted(replies[r][1].statusCode)
  /\ Put(r, onLateAuthError(St(r)))
  /\ UNCHANGED <<configVars, raw, probe>>

\* The backend's response to a proxied request arrives.
ProxyResponse(r) ==
  /\ pc[r] = "proxyWait"
  /\ \E proxyRes \in ProxyResponsesOf(scenario) :
       Put(r, proxyCallback(St(r), [proxyRes EXCEPT !.kind = "proxy"]))
  /\ UNCHANGED <<configVars, raw, probe>>

\* A chunk of the proxied response's body arrives.
ProxyData(r) ==
  /\ pc[r] = "proxyRelay"
  /\ subRes[r].chunks # <<>>
  /\ Put(r, onProxyData(St(r)))
  /\ UNCHANGED <<configVars, raw, probe>>

\* The proxied response's body ends.
ProxyEnd(r) ==
  /\ pc[r] = "proxyRelay"
  /\ subRes[r].chunks = <<>>
  /\ Put(r, onEnd(St(r)))
  /\ UNCHANGED <<configVars, raw, probe>>

\* The proxied request fails: before any response, or while the body of the
\* response is on its way.
ProxyError(r) ==
  /\ pc[r] \in {"proxyWait", "proxyRelay"}
  /\ ~subReqs[r][Len(subReqs[r])].failed
  /\ Put(r, reportError(onError(St(r), Len(subReqs[r])),
                        <<"request to wwwhisper failed">>))
  /\ UNCHANGED <<configVars, raw, probe>>

\* The protected application answers the request it was handed.
AppRespond(r) ==
  /\ pc[r] = "app"
  /\ res[r].ends = 0
  /\ answered[r].kind = "none"
  /\ \E appRes \in AppResponsesOf(scenario) :
       Put(r, appRespond(St(r), [appRes EXCEPT !.kind = "app"]))
  /\ UNCHANGED <<configVars, raw, probe>>

\* The application answers a request whose response the 'error' listener of
\* the authorization query has written and ended meanwhile: its writes are
\* dropped or throw, as the platform has it.
AppRespondLate(r) ==
  /\ pc[r] = "app"
  /\ res[r].ends > 0
  /\ \E outcome \in {"done", "crashed"} :
       Put(r, [St(r) EXCEPT !.pc = outcome])
  /\ UNCHANGED <<configVars, raw, probe>>

Next ==
  \E r \in RequestIds :
    \/ Request(r)
    \/ AuthResponse(r)
    \/ AuthData(r)
    \/ AuthEnd(r)
    \/ AuthError(r)
    \/ LateAuthError(r)
    \/ ProxyResponse(r)
    \/ ProxyData(r)
    \/ ProxyEnd(r)
    \/ ProxyError(r)
    \/ AppRespond(r)
    \/ AppRespondLate(r)

Spec == Init /\ [][Next]_vars

(***************************************************************************)
(* A request whose body arrives in chunks                                  *)
(***************************************************************************)
\* A chunk of the body of request r arrives.
ReqData(r) ==
  /\ pc[r] \notin {"idle", "crashed"}
  /\ upload[r].incoming # <<>>
  /\ Put(r, onReqData(St(r)))
  /\ UNCHANGED <<configVars, raw, probe>>

\* The end of the body of request r arrives, after its last chunk.
ReqEnd(r) ==
  /\ pc[r] \notin {"idle", "crashed"}
  /\ upload[r].incoming = <<>>
  /\ ~upload[r].ended
  /\ Put(r, onReqEnd(St(r)))
  /\ UNCHANGED <<configVars, raw, probe>>

InitUpload ==
  /\ PipelineInit
  /\ middleware.kind = "isAuthorized"
  /\ env.WWWHISPER_DISABLE = Absent
  /\ scenario = "upload"
  /\ probe = NoProbe

NextUpload == Next \/ \E r \in RequestIds : ReqData(r) \/ ReqEnd(r)

SpecUpload == InitUpload /\ [][NextUpload]_vars

(***************************************************************************)
(* An application that answers step by step                               *)
(***************************************************************************)
\* The most chunks the application writes before it ends the response.
MaxWrites == 2

AppContentTypes == {<<"text/html">>, <<"text/plain">>}

AppChunks == {<<"<p>", "Hello World", "</p>">>, <<"</body>", "</html>">>}

\* The application sets the Content-Type; it can as long as the head is not
\* out.
AppSetHeader(r) ==
  /\ pc[r] = "app"
  /\ res[r].ends = 0
  /\ res[r].heads = 0
  /\ \E value \in AppContentTypes :
       Put(r, appSetHeader(St(r), "content-type", value))
  /\ UNCHANGED <<configVars, raw, probe>>

\* The application writes a chunk of the body.
AppWrite(r) ==
  /\ pc[r] = "app"
  /\ res[r].ends = 0
  /\ Len(answered[r].chunks) < MaxWrites
  /\ \E chunk \in AppChunks : Put(r, appWrite(St(r), chunk))
  /\ UNCHANGED <<configVars, raw, probe>>

\* The application ends the response.
AppEnd(r) ==
  /\ pc[r] = "app"
  /\ res[r].ends = 0
  /\ Put(r, appEnd(St(r)))
  /\ UNCHANGED <<configVars, raw, probe>>

InitStream ==
  /\ PipelineInit
  /\ middleware.kind = "isAuthorized"
  /\ env.WWWHISPER_DISABLE = Absent
  /\ scenario = "stream"
  /\ probe = NoProbe

NextStream ==
  \/ Next
  \/ \E r \in RequestIds : AppSetHeader(r) \/ AppWrite(r) \/ AppEnd(r)

SpecStream == InitStream /\ [][NextStream]_vars

(***************************************************************************)
(* wwwhisper() called again while a middleware is mounted                  *)
(***************************************************************************)
\* wwwhisper(injectLogoutIframe) is called again, with the environment e:
\* configure() sets the two globals, or throws and leaves them.  The
\* middleware that is mounted stays mounted.
Configure ==
  /\ \E e \in Envs :
       /\ env' = e
       /\ wwwhisperURL' = IF configureThrows(e) THEN wwwhisperURL
                          ELSE configuredURL(e)
       /\ http' = IF configureThrows(e) THEN http ELSE configuredHttp(e, http)
  /\ UNCHANGED <<argument, middleware, scenario, created, req, res, pc, subReqs,
                 subRes, replies, appCalls, answered, raw, upload, probe>>

InitReconfigure ==
  /\ PipelineInit
  /\ middleware.kind = "isAuthorized"
  /\ scenario = "reconfigure"
  /\ probe = NoProbe

NextReconfigure == Next \/ Configure

SpecReconfigure == InitReconfigure /\ [][NextReconfigure]_vars

(***************************************************************************)
(* Two requests in flight at a time                                        *)
(***************************************************************************)
InitConcurrent ==
  /\ PipelineInit
  /\ middleware.kind = "isAuthorized"
  /\ env.WWWHISPER_DISABLE = Absent
  /\ scenario = "concurrent"
  /\ probe = NoProbe

SpecConcurrent == InitConcurrent /\ [][Next]_vars

(***************************************************************************)
(* Properties of the pipeline                                              *)
(***************************************************************************)
Active == middleware.kind = "isAuthorized"

Arrived(r) == pc[r] # "idle"

\* The part of a request target before the first "?", and the part after it.
PathPart(url) ==
  IF \E i \in 1..Len(url) : url[i] = "?"
  THEN Take(url, (CHOOSE i \in 1..Len(url) :
                    url[i] = "?" /\ \A j \in 1..(i - 1) : url[j] # "?") - 1)
  ELSE url

QueryPart(url) == Drop(url, Len(PathPart(url)) + 1)

\* The normalized path of the request r arrived with, and the URL made of it
\* and the original query string.
NormalPath(r) == normalize(PathPart(raw[r].url))

NormalUrl(r) ==
  IF QueryPart(raw[r].url) = <<>> THEN NormalPath(r)
  ELSE NormalPath(r) \o <<"?">> \o QueryPart(raw[r].url)

UnderLogin(path) == StartsWith(path, <<"/", "wwwhisper", "/", "auth", "/">>)

UnderWwwhisper(path) == StartsWith(path, <<"/", "wwwhisper", "/">>)

IS_AUTHORIZED ==
  <<"/", "wwwhisper", "/", "auth", "/", "api", "/", "is-authorized", "/",
    "?", "path=">>

\* The first backend response of request r is a denial of its authorization query.
Denied(r) ==
  /\ replies[r] # <<>>
  /\ replies[r][1].kind = "auth"
  /\ replies[r][1].statusCode # 200

\* The first backend response of request r grants its authorization query.
Granted(r) ==
  /\ replies[r] # <<>>
  /\ replies[r][1].kind = "auth"
  /\ replies[r][1].statusCode = 200

\* C1: with the gate active, a request outside /wwwhisper/auth/ reaches the
\* protected application only after its own authorization query, the first
\* sub-request issued for it, was answered with status 200; once the query is
\* answered with any other status the application is never invoked.
C1_AppOnlyAfterGrant ==
  \A r \in RequestIds :
    (Active /\ Arrived(r) /\ ~UnderLogin(NormalPath(r))) =>
      /\ appCalls[r] # <<>> =>
           /\ Granted(r)
           /\ subReqs[r][1].kind = "auth"
           /\ StartsWith(subReqs[r][1].options.path, IS_AUTHORIZED)
      /\ Denied(r) => appCalls[r] = <<>>

C1_Witness ==
  \E r \in RequestIds :
    Active /\ ~UnderLogin(NormalPath(r)) /\ Granted(r) /\ Len(appCalls[r]) = 1

\* C2: when the authorization query is answered with a status other than 200
\* the client gets the backend's status, exactly the backend's headers and the
\* backend's body chunks in their order, and the response is ended when, and
\* only when, the backend's response has ended (it has not when the query
\* failed on the way).
C2_DenialRelayedVerbatim ==
  \A r \in RequestIds :
    (Active /\ Denied(r)) =>
      LET b == replies[r][1] IN
      /\ pc[r] \in {"authRelay", "done", "crashed"}
      /\ res[r].heads = 1
      /\ res[r].statusCode = b.statusCode
      /\ res[r].headers = b.headers
      /\ res[r].body \o subRes[r].chunks = b.chunks
      /\ pc[r] = "done" => (res[r].body = b.chunks /\ res[r].ends = 1)
      /\ pc[r] \in {"authRelay", "crashed"} => res[r].ends = 0

C2_Witness ==
  \E r \in RequestIds :
    /\ Active /\ Denied(r) /\ pc[r] = "done"
    /\ Len(replies[r][1].chunks) = 2
    /\ replies[r][1].headers["content-type"] # Absent

\* C3: a request whose normalized path starts with /wwwhisper/auth/ never
\* causes an authorization query: its only sub-request is the proxied one, to
\* the same (normalized) URL and with the request's method, no user is attached
\* to the request and the protected application is never invoked.
C3_LoginBypassesAuthorization ==
  \A r \in RequestIds :
    (Active /\ Arrived(r) /\ UnderLogin(NormalPath(r))) =>
      /\ \A i \in 1..Len(subReqs[r]) : subReqs[r][i].kind # "auth"
      /\ \A i \in 1..Len(replies[r]) : replies[r][i].kind # "auth"
      /\ Len(subReqs[r]) = 1
      /\ subReqs[r][1].kind = "proxy"
      /\ subReqs[r][1].options.path = NormalUrl(r)
      /\ subReqs[r][1].options.method = raw[r].method
      /\ req[r].remoteUser = Absent
      /\ appCalls[r] = <<>>

C3_Witness ==
  \E r \in RequestIds :
    /\ Active /\ UnderLogin(NormalPath(r)) /\ pc[r] = "done"
    /\ Len(replies[r]) = 1
    /\ raw[r].url # NormalUrl(r)

\* What the client got is the 500 report of a failed backend call.
Reported500(r) ==
  /\ res[r].statusCode = 500
  /\ res[r].body \in {<< <<"auth request failed">> >>,
                      << <<"request to wwwhisper failed">> >>}

\* What the client got is the backend's last response, relayed.
Relayed(r) ==
  /\ replies[r] # <<>>
  /\ res[r].heads = 1
  /\ res[r].ends = 1
  /\ res[r].statusCode = replies[r][Len(replies[r])].statusCode
  /\ \A h \in ResHeaderNames :
       replies[r][Len(replies[r])].headers[h] # Absent =>
         res[r].headers[h] = replies[r][Len(replies[r])].headers[h]

\* C4: with the gate active a request whose normalized path starts with
\* /wwwhisper/ never reaches the protected application: after a grant it is
\* proxied to the backend, and when it is over the client has the backend's
\* relayed response (the denial or the proxied one) or the 500 report.
C4_ReservedPrefixNeverReachesApp ==
  \A r \in RequestIds :
    (Active /\ Arrived(r) /\ UnderWwwhisper(NormalPath(r))) =>
      /\ appCalls[r] = <<>>
      /\ pc[r] # "app"
      /\ Granted(r) =>
           /\ Len(subReqs[r]) = 2
           /\ subReqs[r][2].kind = "proxy"
           /\ subReqs[r][2].options.path = NormalUrl(r)
      /\ pc[r] = "done" =>
           \/ Reported500(r)
           \/ Relayed(r) /\ ~(Len(replies[r]) = 1 /\ Granted(r))

C4_Witness ==
  \E r \in RequestIds :
    /\ Active /\ UnderWwwhisper(NormalPath(r)) /\ ~UnderLogin(NormalPath(r))
    /\ Granted(r) /\ Len(replies[r]) = 2 /\ pc[r] = "done"

\* C5: for a request outside /wwwhisper/auth/ the authorization query is a GET
\* without a body to /wwwhisper/auth/api/is-authorized/?path=<normalized path>,
\* whatever the request's method, and holds nothing of the request's query
\* string; the application, when reached, gets the normalized path followed by
\* the original query string.
C5_AuthQueryShape ==
  \A r \in RequestIds :
    (Active /\ Arrived(r) /\ ~UnderLogin(NormalPath(r))) =>
      /\ subReqs[r] # <<>>
      /\ subReqs[r][1].kind = "auth"
      /\ subReqs[r][1].options.method = "GET"
      /\ subReqs[r][1].body = "empty"
      /\ subReqs[r][1].options.path = IS_AUTHORIZED \o NormalPath(r)
      /\ ~Contains(Drop(subReqs[r][1].options.path, Len(IS_AUTHORIZED)), <<"?">>)
      /\ \A i \in 1..Len(appCalls[r]) : appCalls[r][i].url = NormalUrl(r)

C5_Witness ==
  \E r \in RequestIds :
    /\ Active /\ raw[r].method = "POST" /\ QueryPart(raw[r].url) # <<>>
    /\ ~UnderLogin(NormalPath(r))
    /\ Len(appCalls[r]) = 1

\* C6: for every granted request the path the backend was asked to authorize
\* is the path component of the URL the protected application is handed.
C6_AuthorizedPathIsAppPath ==
  \A r \in RequestIds :
    Active =>
      \A i \in 1..Len(appCalls[r]) :
        /\ subReqs[r][1].kind = "auth"
        /\ subReqs[r][1].options.path = IS_AUTHORIZED \o PathPart(appCalls[r][i].url)

C6_Witness ==
  \E r \in RequestIds :
    /\ Active /\ Len(appCalls[r]) = 1
    /\ PathPart(raw[r].url) # PathPart(appCalls[r][1].url)

\* C7: when the authorization query is answered 200 with a User header u, the
\* application is invoked with req.remoteUser = u and the client response
\* carries User: u; when it is answered 200 without a User header neither
\* req.remoteUser nor the User response header is set.
C7_UserAttachedOnGrant ==
  \A r \in RequestIds :
    Active =>
      \A i \in 1..Len(appCalls[r]) :
        LET u == replies[r][1].headers["user"] IN
        /\ Granted(r)
        /\ appCalls[r][i].remoteUser = u
        /\ appCalls[r][i].userHeader = u
        /\ req[r].remoteUser = u
        /\ res[r].headers["user"] = u

C7_Witness ==
  \E r \in RequestIds :
    /\ Active /\ Len(appCalls[r]) = 1 /\ pc[r] = "done"
    /\ replies[r][1].headers["user"] = TEST_USER
    /\ res[r].heads = 1

\* The pairs of a Cookie header, as the backend's cookie parser reads them.
RECURSIVE SplitPairs(_)
SplitPairs(s) ==
  IF s = <<>> THEN <<>>
  ELSE IF \E j \in 1..Len(s) : s[j] = ";"
       THEN LET j == CHOOSE j \in 1..Len(s) :
                       s[j] = ";" /\ \A k \in 1..(j - 1) : s[k] # ";"
            IN <<Take(s, j - 1)>> \o SplitPairs(Drop(s, j))
  ELSE <<s>>

RECURSIVE LTrim(_)
LTrim(s) == IF s # <<>> /\ s[1] = " " THEN LTrim(Tail(s)) ELSE s

RECURSIVE TrimAll(_)
TrimAll(pairs) ==
  IF pairs = <<>> THEN <<>> ELSE <<LTrim(Head(pairs))>> \o TrimAll(Tail(pairs))

NonEmpty(s) == s # <<>>

\* The cookie pairs of a Cookie header.
CookiePairs(s) == SelectSeq(TrimAll(SplitPairs(s)), NonEmpty)

IsAuthPair(pair) == StartsWith(pair, <<"wwwhisper", "-">>)

ExpectedCookies(r) ==
  IF raw[r].headers["cookie"] = Absent THEN <<>>
  ELSE SelectSeq(CookiePairs(raw[r].headers["cookie"]), IsAuthPair)

\* C10: the Cookie header of every sub-request holds exactly the cookie pairs
\* of the incoming Cookie header whose name starts with "wwwhisper-", in their
\* order, and there is no Cookie header when no pair has that name.
C10_OnlyAuthCookiesForwarded ==
  \A r \in RequestIds :
    \A i \in 1..Len(subReqs[r]) :
      LET sent == subReqs[r][i].options.headers["Cookie"] IN
      IF ExpectedCookies(r) = <<>> THEN sent = Absent
      ELSE sent # Absent /\ CookiePairs(sent) = ExpectedCookies(r)

\* The headers of the i-th sub-request of request r.
Sent(r, i) == subReqs[r][i].options.headers

CORRELATION_HEADERS ==
  {"Origin", "X-Csrftoken", "X-Requested-With", "Content-Type", "Content-Length"}

\* C11: an authorization query carries Accept and Accept-Language exactly as
\* the incoming request has them (absent when it has none), a Cookie header
\* only when the incoming request has one, Site-Url and User-Agent, and none
\* of Origin, X-Csrftoken, X-Requested-With, Content-Type and Content-Length.
C11_AuthQueryHeaders ==
  \A r \in RequestIds :
    \A i \in 1..Len(subReqs[r]) :
      subReqs[r][i].kind = "auth" =>
        /\ Sent(r, i)["Accept"] = raw[r].headers["accept"]
        /\ Sent(r, i)["Accept-Language"] = raw[r].headers["accept-language"]
        /\ \A h \in CORRELATION_HEADERS : Sent(r, i)[h] = Absent
        /\ Sent(r, i)["Cookie"] # Absent => raw[r].headers["cookie"] # Absent
        /\ Sent(r, i)["Site-Url"] # Absent
        /\ Sent(r, i)["User-Agent"] # Absent
        /\ {h \in DOMAIN Sent(r, i) : Sent(r, i)[h] # Absent} \subseteq
             {"Accept", "Accept-Language", "Cookie", "Site-Url", "User-Agent"}

C11_Witness ==
  \E r \in RequestIds :
    /\ Len(subReqs[r]) >= 1
    /\ subReqs[r][1].kind = "auth"
    /\ \A h \in CORRELATION_HEADERS : raw[r].headers[toLowerCase(h)] # Absent
    /\ Sent(r, 1)["Accept-Language"] = <<"en-US">>
    /\ Sent(r, 1)["Accept"] = Absent

\* C12: a proxied request carries each of Accept, Accept-Language, Origin,
\* X-Csrftoken, X-Requested-With, Content-Type and Content-Length exactly when
\* the incoming request has the header under its lower-case name, with the
\* incoming value, and beside them only Cookie (when the incoming request has
\* one), Site-Url and User-Agent.
C12_ProxyHeaders ==
  \A r \in RequestIds :
    \A i \in 1..Len(subReqs[r]) :
      subReqs[r][i].kind = "proxy" =>
        /\ Sent(r, i)["Accept"] = raw[r].headers["accept"]
        /\ Sent(r, i)["Accept-Language"] = raw[r].headers["accept-language"]
        /\ Sent(r, i)["Origin"] = raw[r].headers["origin"]
        /\ Sent(r, i)["X-Csrftoken"] = raw[r].headers["x-csrftoken"]
        /\ Sent(r, i)["X-Requested-With"] = raw[r].headers["x-requested-with"]
        /\ Sent(r, i)["Content-Type"] = raw[r].headers["content-type"]
        /\ Sent(r, i)["Content-Length"] = raw[r].headers["content-length"]
        /\ Sent(r, i)["Cookie"] # Absent => raw[r].headers["cookie"] # Absent
        /\ Sent(r, i)["Site-Url"] # Absent
        /\ Sent(r, i)["User-Agent"] # Absent
        /\ DOMAIN Sent(r, i) =
             {"Accept", "Accept-Language", "Origin", "X-Csrftoken",
              "X-Requested-With", "Content-Type", "Content-Length", "Cookie",
              "Site-Url", "User-Agent"}

C12_Witness ==
  \E r \in RequestIds :
    /\ Len(subReqs[r]) = 2
    /\ subReqs[r][2].kind = "proxy"
    /\ Sent(r, 2)["X-Requested-With"] = <<"XMLHttpRequest">>
    /\ Sent(r, 2)["Content-Length"] = <<"0">>
    /\ Sent(r, 2)["Accept"] = Absent
    /\ raw[r].headers["authorization"] # Absent

\* C13: every sub-request carries User-Agent 'node-1.1.1' and Site-Url
\* '<scheme>://<Host header>', the scheme being https on an encrypted
\* connection, else the X-Forwarded-Proto header when there is one, else http.
C13_SiteUrlAndUserAgent ==
  \A r \in RequestIds :
    \A i \in 1..Len(subReqs[r]) :
      /\ Sent(r, i)["User-Agent"] = <<"node-1.1.1">>
      /\ raw[r].encrypted =>
           Sent(r, i)["Site-Url"] = <<"https", "://">> \o raw[r].headers["host"]
      /\ (~raw[r].encrypted /\ raw[r].headers["x-forwarded-proto"] # Absent) =>
           Sent(r, i)["Site-Url"] =
             raw[r].headers["x-forwarded-proto"] \o <<"://">> \o raw[r].headers["host"]
      /\ (~raw[r].encrypted /\ raw[r].headers["x-forwarded-proto"] = Absent) =>
           Sent(r, i)["Site-Url"] = <<"http", "://">> \o raw[r].headers["host"]

C13_Witness ==
  \E r \in RequestIds :
    /\ raw[r].encrypted
    /\ raw[r].headers["x-forwarded-proto"] = <<"http">>
    /\ Len(subReqs[r]) = 2
    /\ subReqs[r][1].kind = "auth"
    /\ subReqs[r][2].kind = "proxy"
    /\ Sent(r, 2)["Site-Url"] = <<"https", "://", "localhost:9999">>

\* The application answered request r.
Answered(r) == answered[r].kind = "app"

\* The headers declare HTML text, and no content encoding but identity.
DeclaresHtml(headers) ==
  /\ headers["content-type"] # Absent
  /\ \E i \in 1..Len(headers["content-type"]) :
       headers["content-type"][i] = "text/html"

Unencoded(headers) ==
  headers["content-encoding"] \in {Absent, <<"identity">>}

\* What the client was sent as the body of request r, as one string.
ClientBody(r) == Concat(res[r].body)

\* C14: with injection enabled, the body of the application's response to a
\* granted request goes through the rewrite if and only if the response
\* declares Content-Type text/html and no Content-Encoding or identity; in
\* every other case, so for Content-Encoding gzip and for Content-Type
\* text/plain, the client is sent the application's chunks as they are.
C14_InjectionDecision ==
  \A r \in RequestIds :
    (Active /\ middleware.injectLogoutIframe /\ Answered(r)) =>
      /\ Granted(r)
      /\ res[r].intercepted = "yes" <=>
           (DeclaresHtml(answered[r].headers) /\ Unencoded(answered[r].headers))
      /\ res[r].intercepted = "yes" => Len(res[r].body) = 1
      /\ res[r].intercepted # "yes" => res[r].body = answered[r].chunks
      /\ (answered[r].headers["content-encoding"] = <<"gzip">>
          \/ answered[r].headers["content-type"] = <<"text/plain">>) =>
           ClientBody(r) = Concat(answered[r].chunks)
      /\ (res[r].intercepted = "yes" /\ answered[r].chunks = << TEST_HTML_BODY >>) =>
           ClientBody(r) # Concat(answered[r].chunks)

C14_Witness ==
  \E r \in RequestIds :
    /\ Active /\ middleware.injectLogoutIframe /\ Answered(r)
    /\ res[r].injector
    /\ answered[r].headers["content-type"] = <<"text/html">>
    /\ answered[r].headers["content-encoding"] = <<"gzip">>
    /\ ClientBody(r) = TEST_HTML_BODY

\* The body with the script tag put right before its last closing body tag.
ScriptBeforeLastBodyTag(data) ==
  Take(data, LastIndexOf(data, "</body>") - 1) \o SCRIPT
    \o Drop(data, LastIndexOf(data, "</body>") - 1)

\* C15: when the injection applies to a body that holds a closing body tag,
\* the client is sent the application's body with one script tag put right
\* before the last closing body tag of the whole body, and every original
\* byte before and after it is kept, in order.
C15_ScriptBeforeLastBodyTag ==
  \A r \in RequestIds :
    (Active /\ Answered(r) /\ res[r].intercepted = "yes"
       /\ LastIndexOf(Concat(answered[r].chunks), "</body>") # 0) =>
      ClientBody(r) = ScriptBeforeLastBodyTag(Concat(answered[r].chunks))

\* C16: when the injection applies to an HTML body without a closing body
\* tag, the client is sent exactly the chunks the application wrote, joined
\* in their order, with the application's status and one end.
C16_NoBodyTagPassesThrough ==
  \A r \in RequestIds :
    (Active /\ Answered(r) /\ res[r].intercepted = "yes"
       /\ LastIndexOf(Concat(answered[r].chunks), "</body>") = 0) =>
      /\ ClientBody(r) = Concat(answered[r].chunks)
      /\ res[r].statusCode = answered[r].statusCode
      /\ res[r].ends = 1

\* C17: a middleware created with injectLogoutIframe = false never puts the
\* injector into a request's chain, so the client is sent the application's
\* chunks as they are and no proxied response is intercepted, while the
\* application is still reached only after a grant, with the user attached,
\* and paths under /wwwhisper/ are still proxied; a middleware created
\* without the argument has injection enabled and hands every granted request
\* to the application with the injector in its chain.
C17_InjectionDisabled ==
  /\ (Active /\ argument = "undefined") =>
       /\ middleware.injectLogoutIframe
       /\ \A r \in RequestIds :
            \A i \in 1..Len(appCalls[r]) : appCalls[r][i].injector
  /\ (Active /\ argument = "false") =>
       \A r \in RequestIds :
         /\ ~res[r].injector
         /\ res[r].intercepted # "yes"
         /\ res[r].buffer = <<>>
         /\ \A i \in 1..Len(appCalls[r]) :
              /\ ~appCalls[r][i].injector
              /\ Granted(r)
              /\ appCalls[r][i].remoteUser = replies[r][1].headers["user"]
              /\ ~UnderWwwhisper(appCalls[r][i].url)
         /\ Answered(r) => res[r].body = answered[r].chunks
         /\ (Granted(r) /\ UnderWwwhisper(NormalPath(r))) =>
              /\ Len(subReqs[r]) = 2
              /\ subReqs[r][2].kind = "proxy"

C17_Witness ==
  \E r \in RequestIds :
    /\ Active /\ argument = "false" /\ Answered(r)
    /\ answered[r].headers["content-type"] = <<"text/html">>
    /\ answered[r].headers["content-encoding"] = Absent
    /\ ClientBody(r) = TEST_HTML_BODY
    /\ req[r].remoteUser = TEST_USER

\* C18: when an authorization query fails in transport the client has status
\* 500 with the body 'auth request failed', when a proxied request fails it
\* has status 500 with the body 'request to wwwhisper failed'; either way the
\* response is ended and the application was not invoked.
C18_TransportFailureReported ==
  \A r \in RequestIds :
    \A i \in 1..Len(subReqs[r]) :
      subReqs[r][i].failed =>
        /\ res[r].statusCode = 500
        /\ subReqs[r][i].kind = "auth" =>
             res[r].body = << <<"auth request failed">> >>
        /\ subReqs[r][i].kind = "proxy" =>
             res[r].body = << <<"request to wwwhisper failed">> >>
        /\ res[r].ends = 1
        /\ appCalls[r] = <<>>

\* C19: with WWWHISPER_DISABLE set and no WWWHISPER_URL the middleware hands
\* each request to the next handler as it arrived: the URL is not normalized,
\* no user is attached, no sub-request is made and the response is untouched
\* until the application answers; with neither variable set wwwhisper()
\* throws and no request is ever served.
C19_DisabledOrThrows ==
  /\ (env.WWWHISPER_URL = Absent /\ env.WWWHISPER_DISABLE # Absent) =>
       /\ middleware.kind = "wwwhisperDisabled"
       /\ \A r \in RequestIds :
            Arrived(r) =>
              /\ appCalls[r] = << [url |-> raw[r].url, remoteUser |-> Absent,
                                   userHeader |-> Absent, injector |-> FALSE] >>
              /\ req[r] = raw[r]
              /\ subReqs[r] = <<>>
              /\ replies[r] = <<>>
              /\ ~Answered(r) => res[r] = NewRes
              /\ Answered(r) => res[r].body = answered[r].chunks
  /\ (env.WWWHISPER_URL = Absent /\ env.WWWHISPER_DISABLE = Absent) =>
       /\ middleware.kind = "threw"
       /\ \A r \in RequestIds :
            ~Arrived(r) /\ appCalls[r] = <<>> /\ subReqs[r] = <<>>

C19_Witness ==
  \E r \in RequestIds :
    /\ env.WWWHISPER_URL = Absent /\ env.WWWHISPER_DISABLE # Absent
    /\ Answered(r)
    /\ raw[r].url # NormalUrl(r)
    /\ Len(appCalls[r]) = 1
    /\ raw[r].headers["cookie"] # Absent

\* The last backend response of request r is the one to a proxied request.
Proxied(r) ==
  /\ replies[r] # <<>>
  /\ replies[r][Len(replies[r])].kind = "proxy"

\* C20: when a proxied request is over, directly under /wwwhisper/auth/ or
\* after a grant elsewhere under /wwwhisper/, the client has the backend's
\* status, the backend's headers and exactly the backend's body; the body
\* holds no injected script tag, whatever the backend's Content-Type.
C20_ProxiedResponseUnaltered ==
  \A r \in RequestIds :
    (Active /\ Proxied(r) /\ pc[r] = "done") =>
      LET b == replies[r][Len(replies[r])] IN
      /\ res[r].statusCode = b.statusCode
      /\ \A h \in ResHeaderNames :
           b.headers[h] # Absent => res[r].headers[h] = b.headers[h]
      /\ ClientBody(r) = Concat(b.chunks)
      /\ \A i \in 1..Len(ClientBody(r)) : ClientBody(r)[i] # SCRIPT[1]

(***************************************************************************)
(* Path normalization on its own                                           *)
(***************************************************************************)
\* Every string over PathTokens of length 1..n.
RECURSIVE Strings(_)
Strings(n) ==
  IF n = 0 THEN {}
  ELSE {<<t>> : t \in PathTokens}
       \cup Strings(n - 1)
       \cup {Append(s, t) : s \in Strings(n - 1), t \in PathTokens}

\* The request paths of the test suite, with the path each normalizes to.
TestPaths ==
  {[in |-> <<"/">>, out |-> <<"/">>],
   [in |-> <<"/", "foo", "/", "bar">>, out |-> <<"/", "foo", "/", "bar">>],
   [in |-> <<"/", "foo", "/", "bar", "/">>, out |-> <<"/", "foo", "/", "bar", "/">>],
   [in |-> <<"/", "auth", "/", "api", "/", "login", "/", ".", ".", "/", ".", ".",
             "/", ".", ".", "/", "foo", "/">>,
    out |-> <<"/", "foo", "/">>],
   [in |-> <<"/", "/">>, out |-> <<"/">>],
   [in |-> <<>>, out |-> <<"/">>],
   [in |-> <<"/", ".", ".", "/">>, out |-> <<"/">>],
   [in |-> <<"/", ".", "/", ".", "/", ".", "/">>, out |-> <<"/">>],
   [in |-> <<"/", "foo", "/", ".", "/", "bar", "/", ".", ".", "/", ".", ".", "/",
             "bar">>,
    out |-> <<"/", "bar">>],
   [in |-> <<"/", ".", "/", ".", "/", ".", "/", "/">>, out |-> <<"/">>]}

\* The path of the test the suite keeps disabled.
TEST_PATH_12 == <<"/", "foo", "/", "bar", "/", ".", ".">>

\* The paths normalization is checked on: the empty path, every absolute path
\* over PathTokens up to MaxPathLen, and the paths of the test suite.
NormInputs ==
  {<<>>} \cup {s \in Strings(MaxPathLen) : s[1] = "/"} \cup {t.in : t \in TestPaths}
  \cup {TEST_PATH_12}

InitNorm ==
  /\ PipelineInit
  /\ scenario = "single"
  /\ middleware.kind = "threw"
  /\ \E p \in NormInputs :
       probe = [fn |-> "normalize", arg |-> p, once |-> <<>>, twice |-> <<>>,
                stage |-> 0]

\* The path is normalized.
NormalizeOnce ==
  /\ probe.stage = 0
  /\ probe' = [probe EXCEPT !.once = normalize(probe.arg), !.stage = 1]
  /\ UNCHANGED pipelineVars

\* The normalized path is normalized again.
NormalizeTwice ==
  /\ probe.stage = 1
  /\ probe' = [probe EXCEPT !.twice = normalize(probe.once), !.stage = 2]
  /\ UNCHANGED pipelineVars

NextNorm == NormalizeOnce \/ NormalizeTwice

SpecNorm == InitNorm /\ [][NextNorm]_vars

\* A path without "." and ".." segments and without a run of slashes.
IsNormal(p) ==
  /\ p # <<>>
  /\ p[1] = "/"
  /\ ~Contains(p, <<"/", "/">>)
  /\ ~Contains(p, <<"/", ".", "/">>)
  /\ ~Contains(p, <<"/", ".", ".", "/">>)
  /\ ~(Len(p) >= 2 /\ SubSeq(p, Len(p) - 1, Len(p)) = <<"/", ".">>)
  /\ ~(Len(p) >= 3 /\ SubSeq(p, Len(p) - 2, Len(p)) = <<"/", ".", ".">>)

C9_NormalizationIdempotent ==
  probe.stage = 2 => probe.twice = probe.once

C9_Witness ==
  /\ probe.stage = 2
  /\ probe.once # probe.arg
  /\ Contains(probe.arg, <<"/", ".", ".", "/">>)

(***************************************************************************)
(* Termination, concurrency and the order of sub-requests                  *)
(***************************************************************************)
\* Nothing more is done for request r: its handling is over or it stopped
\* with the process.
Over(r) == pc[r] \in {"done", "crashed"}

\* C21: a request whose handling is over has a terminal outcome: its response
\* was ended, once, whether the backend answered or a sub-request failed,
\* before or after the backend's response headers were received.
C21_FailureNeverLeavesResponseOpen ==
  \A r \in RequestIds : Over(r) => res[r].ends = 1

\* Request r had a sub-request of its own fail.
OwnFailure(r) == \E i \in 1..Len(subReqs[r]) : subReqs[r][i].failed

\* C22: with two requests in flight and their callbacks interleaved, what a
\* request comes to depends on its own backend responses only: the application
\* is invoked for it only after its own grant, the identity attached to it is
\* the one its own grant named, an ended response without a failure of its own
\* carries what its own denial, proxied response or application gave, and its
\* handling stops short only on a transport failure of its own.
C22_RequestsIndependent ==
  \A r \in RequestIds :
    /\ appCalls[r] # <<>> => Granted(r)
    /\ req[r].remoteUser # Absent =>
         Granted(r) /\ req[r].remoteUser = replies[r][1].headers["user"]
    /\ res[r].headers["user"] # Absent =>
         Granted(r) /\ res[r].headers["user"] = replies[r][1].headers["user"]
    /\ (pc[r] = "done" /\ ~OwnFailure(r)) =>
         /\ res[r].ends = 1
         /\ Denied(r) => res[r].statusCode = replies[r][1].statusCode
         /\ Proxied(r) =>
              res[r].statusCode = replies[r][Len(replies[r])].statusCode
         /\ Answered(r) => res[r].statusCode = answered[r].statusCode
    /\ pc[r] = "crashed" => OwnFailure(r)

\* C23: every sub-request a middleware issues goes to the backend endpoint
\* (host, port, credentials) and through the transport module that were
\* configured when the middleware was created, also after wwwhisper() was
\* called again with another environment.
C23_EndpointFixedAtCreation ==
  \A r \in RequestIds :
    \A i \in 1..Len(subReqs[r]) :
      /\ subReqs[r][i].options.hostname = created.wwwhisperURL.hostname
      /\ subReqs[r][i].options.port = created.wwwhisperURL.port
      /\ subReqs[r][i].options.auth = created.wwwhisperURL.auth
      /\ subReqs[r][i].module = created.http

\* The i-th sub-request of request r is a proxied one / an authorization query.
IsProxy(r, i) == subReqs[r][i].kind = "proxy"

IsAuthQuery(r, i) == subReqs[r][i].kind = "auth"

\* C24: for a request under /wwwhisper/ but outside /wwwhisper/auth/ a proxied
\* sub-request is issued only as the second sub-request, after the
\* authorization query, the first, was answered with status 200; when the
\* query is denied or fails without an answer no proxied sub-request is issued.
C24_ProxyOnlyAfterGrant ==
  \A r \in RequestIds :
    (Active /\ Arrived(r) /\ UnderWwwhisper(NormalPath(r))
       /\ ~UnderLogin(NormalPath(r))) =>
      /\ subReqs[r] # <<>> /\ IsAuthQuery(r, 1)
      /\ \A i \in 1..Len(subReqs[r]) :
           IsProxy(r, i) => (i = 2 /\ Granted(r))
      /\ (Denied(r) \/ (replies[r] = <<>> /\ subReqs[r][1].failed)) =>
           Len(subReqs[r]) = 1

C24_Witness ==
  \E r \in RequestIds :
    /\ Active /\ UnderWwwhisper(NormalPath(r)) /\ ~UnderLogin(NormalPath(r))
    /\ Granted(r)
    /\ Len(subReqs[r]) = 2 /\ IsProxy(r, 2)
    /\ pc[r] = "done"

\* The number of authorization queries issued for request r.
AuthQueries(r) == Cardinality({i \in 1..Len(subReqs[r]) : IsAuthQuery(r, i)})

\* C25: an arrived request has at most one authorization query and a failed
\* query is not sent again.  The backend is called once for a request outside
\* /wwwhisper/ (the query) and once for a request under /wwwhisper/auth/ (the
\* proxied request, without a query); for any other request under /wwwhisper/
\* it is called once until the query is granted and twice from then on (the
\* query, then the proxied request).
C25_BackendCallCounts ==
  \A r \in RequestIds :
    (Active /\ Arrived(r)) =>
      /\ AuthQueries(r) <= 1
      /\ ~UnderWwwhisper(NormalPath(r)) =>
           Len(subReqs[r]) = 1 /\ IsAuthQuery(r, 1)
      /\ UnderLogin(NormalPath(r)) =>
           Len(subReqs[r]) = 1 /\ IsProxy(r, 1)
      /\ (UnderWwwhisper(NormalPath(r)) /\ ~UnderLogin(NormalPath(r))) =>
           /\ IsAuthQuery(r, 1)
           /\ Len(subReqs[r]) = IF Granted(r) THEN 2 ELSE 1

C25_Witness ==
  \E r \in RequestIds :
    /\ Active /\ pc[r] = "done"
    /\ ~UnderWwwhisper(NormalPath(r))
    /\ Len(subReqs[r]) = 1 /\ subReqs[r][1].failed
    /\ res[r].statusCode = 500

\* The raw paths the examples of C27 name.
DOTTED_LOGIN == <<"/", "wwwhisper", "/", "auth", "/", ".", ".", "/", ".", ".", "/",
                  "foo", "/">>

\* The URL of request r as the specification's normalization gives it.
ResolvedUrl(r) == resolved(raw[r].url)

\* C27: the request is classified by its normalized URL.  Its first
\* sub-request is a proxied one, without an authorization query, exactly when
\* the normalized URL starts with '/wwwhisper/auth/'; any proxied sub-request
\* is for a normalized URL that starts with '/wwwhisper/', and a granted
\* request with such a URL is proxied and not handed to the application.
\* '/wwwhisper/auth/../../foo/' gets an authorization query for '/foo/', and
\* '/wwwhisper' and '/wwwhisper/auth' get an authorization query as well.
C27_ClassifiedByNormalizedUrl ==
  \A r \in RequestIds :
    (Active /\ Arrived(r)) =>
      /\ IsProxy(r, 1) <=> UnderLogin(ResolvedUrl(r))
      /\ \A i \in 1..Len(subReqs[r]) :
           IsProxy(r, i) => UnderWwwhisper(ResolvedUrl(r))
      /\ Granted(r) =>
           IF UnderWwwhisper(ResolvedUrl(r))
           THEN Len(subReqs[r]) = 2 /\ IsProxy(r, 2) /\ appCalls[r] = <<>>
           ELSE Len(subReqs[r]) = 1 /\ Len(appCalls[r]) = 1
      /\ raw[r].url = DOTTED_LOGIN =>
           /\ IsAuthQuery(r, 1)
           /\ subReqs[r][1].options.path = authQuery(<<"/", "foo", "/">>)
      /\ raw[r].url \in {<<"/", "wwwhisper">>, <<"/", "wwwhisper", "/", "auth">>} =>
           /\ IsAuthQuery(r, 1)
           /\ subReqs[r][1].options.path = authQuery(raw[r].url)

\* Who wrote to the response of request r: the relay of a denial, the relay
\* of a proxied response, the application, or the error report.
ByDenialRelay(r) == subRes[r].kind = "auth"

ByProxyRelay(r) == subRes[r].kind = "proxy"

ByApplication(r) == Answered(r)

ERROR_REPORTS == {<<"auth request failed">>, <<"request to wwwhisper failed">>}

ByErrorReport(r) ==
  /\ res[r].statusCode = 500
  /\ \E msg \in ERROR_REPORTS : Contains(ClientBody(r), msg)

Writers(r) ==
  {w \in {"denial", "proxy", "application", "report"} :
     \/ w = "denial" /\ ByDenialRelay(r)
     \/ w = "proxy" /\ ByProxyRelay(r)
     \/ w = "application" /\ ByApplication(r)
     \/ w = "report" /\ ByErrorReport(r)}

\* A sub-request of request r failed after its response callback had run.
LateFailure(r) ==
  \E i \in 1..Len(subReqs[r]) : subReqs[r][i].failed /\ Len(replies[r]) >= i

\* C28: the head of a response is written at most once and nothing of the
\* body is sent without it; a response with a head was written by exactly one
\* of the relay of a denial, the relay of a proxied response, the application
\* and the 500 error report.  After a sub-request failed once its response
\* callback had run, what a relay had sent is not followed by the text of an
\* error report.
C28_HeadWrittenOnce ==
  \A r \in RequestIds :
    /\ res[r].heads <= 1
    /\ res[r].heads = 0 => res[r].body = <<>>
    /\ res[r].heads = 1 => Cardinality(Writers(r)) = 1
    /\ (LateFailure(r) /\ (ByDenialRelay(r) \/ ByProxyRelay(r))) =>
         /\ res[r].statusCode = replies[r][Len(replies[r])].statusCode
         /\ Len(res[r].body) + Len(res[r].buffer)
              <= Len(replies[r][Len(replies[r])].chunks)

\* C26: once the application has begun the body of its response the
\* injection decision is the one its headers gave at the first write, whatever
\* it sets afterwards: it was taken before any byte of the body was sent, a
\* body that is not intercepted goes out chunk by chunk as it was written, and
\* an intercepted one is held back until the response ends.
C26_DecisionAtFirstWrite ==
  \A r \in RequestIds :
    /\ res[r].intercepted = "unset" => res[r].body = <<>>
    /\ Answered(r) =>
         /\ res[r].intercepted =
              IF res[r].injector /\ shouldInject(answered[r]) THEN "yes" ELSE "no"
         /\ res[r].intercepted = "no" => res[r].body = answered[r].chunks
         /\ (res[r].intercepted = "yes" /\ res[r].ends = 0) => res[r].body = <<>>

C26_Witness ==
  \E r \in RequestIds :
    /\ Answered(r)
    /\ pc[r] = "done"
    /\ Len(answered[r].chunks) = 2
    /\ answered[r].headers["content-type"] = <<"text/html">>
    /\ res[r].headers["content-type"] = <<"text/plain">>
    /\ res[r].intercepted = "yes"
    /\ Contains(ClientBody(r), SCRIPT)

\* The chunks of s from the first on, as far as p goes.
IsPrefix(p, s) == Len(p) <= Len(s) /\ SubSeq(s, 1, Len(p)) = p

\* C30: a proxied sub-request has the method of the incoming request and its
\* normalized URL with the query string.  The backend receives the chunks of
\* the incoming body in their order, none lost, none twice, and the end of
\* the body once all of them went through, also when the sub-request is
\* issued after the authorization query was answered: what arrived meanwhile
\* waits in the request and is handed over first.
C30_ProxiedBodyComplete ==
  \A r \in RequestIds :
    /\ upload[r].dest = 0 =>
         upload[r].buffered \o upload[r].incoming = upload[r].body
    /\ \A i \in 1..Len(subReqs[r]) :
         IsProxy(r, i) =>
           /\ subReqs[r][i].options.method = raw[r].method
           /\ subReqs[r][i].options.path = NormalUrl(r)
           /\ upload[r].dest = i
           /\ upload[r].buffered = <<>>
           /\ IsPrefix(subReqs[r][i].received, upload[r].body)
           /\ subReqs[r][i].received \o upload[r].incoming = upload[r].body
           /\ subReqs[r][i].ended <=> upload[r].ended
           /\ subReqs[r][i].ended => subReqs[r][i].received = upload[r].body

C30_Witness ==
  \E r \in RequestIds :
    /\ Granted(r)
    /\ Len(subReqs[r]) = 2 /\ IsProxy(r, 2)
    /\ subReqs[r][2].held = 1
    /\ subReqs[r][2].received = upload[r].body
    /\ Len(upload[r].body) = 2
    /\ subReqs[r][2].ended
    /\ raw[r].url # NormalUrl(r)
    /\ pc[r] = "done"

(***************************************************************************)
(* Normalization against RFC 3986                                          *)
(***************************************************************************)
\* C29: normalization removes dot segments as RFC 3986 remove_dot_segments
\* does, for every path, a path that ends with a ".." segment included:
\* '/foo/bar/..' becomes '/foo/'.
C29_FollowsRemoveDotSegments ==
  probe.stage >= 1 =>
    /\ probe.once = resolved(probe.arg)
    /\ probe.arg = TEST_PATH_12 => probe.once = <<"/", "foo", "/">>

(***************************************************************************)
(* Configuration, identity and the allow-lists                             *)
(***************************************************************************)
\* C34: with WWWHISPER_URL set the gate is active, WWWHISPER_DISABLE set or
\* not: the middleware is isAuthorized, its backend is the one the URL names
\* and every request it is handed causes a sub-request.  The middleware passes
\* requests through only when WWWHISPER_DISABLE is set and WWWHISPER_URL is not.
C34_UrlWinsOverDisable ==
  /\ env.WWWHISPER_URL # Absent =>
       /\ middleware.kind = "isAuthorized"
       /\ wwwhisperURL = urlParse(env.WWWHISPER_URL)
       /\ \A r \in RequestIds :
            Arrived(r) =>
              /\ subReqs[r] # <<>>
              /\ subReqs[r][1].options.hostname = urlParse(env.WWWHISPER_URL).hostname
              /\ appCalls[r] # <<>> => (Granted(r) /\ ~UnderWwwhisper(NormalUrl(r)))
  /\ middleware.kind = "wwwhisperDisabled" <=>
       (env.WWWHISPER_URL = Absent /\ env.WWWHISPER_DISABLE # Absent)

C34_Witness ==
  \E r \in RequestIds :
    /\ env.WWWHISPER_URL # Absent
    /\ env.WWWHISPER_DISABLE # Absent
    /\ Denied(r)
    /\ pc[r] = "done"
    /\ appCalls[r] = <<>>
    /\ res[r].statusCode = 401

(***************************************************************************)
(* The authorization queries of two requests, side by side                 *)
(***************************************************************************)
PairUrls ==
  {<<"/", "foo", "/", "bar">>,
   <<"/", "foo", "/", "bar", "?", "what=xyz">>,
   <<"/", "foo", "/", ".", "/", "bar">>,
   <<"/">>}

\* Header sets that agree on the headers the authorization query may depend
\* on and differ in others, and header sets that differ in cookies only.
PairShapes ==
  {[headers |-> BaseHeaders, encrypted |-> FALSE],
   [headers |-> [BaseHeaders EXCEPT !["origin"] = <<"https://localhost:9999">>,
                                    !["content-type"] = <<"application/json">>,
                                    !["authorization"] = <<"Basic app-secret">>],
    encrypted |-> FALSE],
   [headers |-> [BaseHeaders EXCEPT !["cookie"] = AUTH_COOKIE], encrypted |-> FALSE],
   [headers |-> [BaseHeaders EXCEPT
                   !["cookie"] = <<"session", "=", "123", ";", " ">> \o AUTH_COOKIE,
                   !["x-csrftoken"] = <<"abc">>],
    encrypted |-> FALSE],
   [headers |-> [BaseHeaders EXCEPT
                   !["cookie"] = AUTH_COOKIE \o <<";", " ", "session", "=", "123">>],
    encrypted |-> FALSE],
   [headers |-> [BaseHeaders EXCEPT
                   !["cookie"] = <<"session", "=", "wwwhisper", "-", "123">>],
    encrypted |-> FALSE]}

\* The incoming requests that are compared: a GET without a body or a POST
\* with one.
PairRequests ==
  {[req |-> [url |-> url, method |-> send.method, headers |-> shape.headers,
             encrypted |-> shape.encrypted, remoteUser |-> Absent],
    body |-> send.body] :
     url \in PairUrls, shape \in PairShapes,
     send \in {[method |-> "GET", body |-> <<>>],
               [method |-> "POST", body |-> << <<"a=1">> >>]}}

\* What the backend is sent when isAuthorized is handed the request: the
\* sub-requests issued before the middleware waits, each with the options,
\* method and path included, and with the body the backend got.
querySent(request) ==
  LET st == isAuthorized([St("r1") EXCEPT !.req = request.req,
                                         !.upload = Upload(request.body)])
  IN [i \in 1..Len(st.subReqs) |->
        [kind |-> st.subReqs[i].kind, options |-> st.subReqs[i].options,
         received |-> st.subReqs[i].received]]

InitPair ==
  /\ PipelineInit
  /\ scenario = "single"
  /\ env.WWWHISPER_URL = HTTP_URL
  /\ \E a \in PairRequests, b \in PairRequests :
       probe = [fn |-> "isAuthorized", arg |-> <<a, b>>, once |-> <<>>,
                twice |-> <<>>, stage |-> 0]

\* The middleware is handed the first request of the pair.
QueryFirst ==
  /\ probe.stage = 0
  /\ probe' = [probe EXCEPT !.once = querySent(probe.arg[1]), !.stage = 1]
  /\ UNCHANGED pipelineVars

\* The middleware is handed the second request of the pair.
QuerySecond ==
  /\ probe.stage = 1
  /\ probe' = [probe EXCEPT !.twice = querySent(probe.arg[2]), !.stage = 2]
  /\ UNCHANGED pipelineVars

NextPair == QueryFirst \/ QuerySecond

SpecPair == InitPair /\ [][NextPair]_vars

\* The cookie pairs of request q whose name starts with "wwwhisper-".
AuthCookiesOf(q) ==
  IF q.headers["cookie"] = Absent THEN <<>>
  ELSE SelectSeq(CookiePairs(q.headers["cookie"]), IsAuthPair)

\* Two requests agree on everything an authorization query may depend on.
Agree(a, b) ==
  /\ normalize(PathPart(a.url)) = normalize(PathPart(b.url))
  /\ a.headers["accept"] = b.headers["accept"]
  /\ a.headers["accept-language"] = b.headers["accept-language"]
  /\ AuthCookiesOf(a) = AuthCookiesOf(b)
  /\ a.headers["host"] = b.headers["host"]
  /\ a.encrypted = b.encrypted
  /\ a.headers["x-forwarded-proto"] = b.headers["x-forwarded-proto"]

\* A sub-request as the backend reads it: the Cookie header as cookie pairs.
Observed(sent) ==
  [i \in 1..Len(sent) |->
     [sent[i] EXCEPT !.options.headers["Cookie"] =
        IF @ = Absent THEN <<>> ELSE CookiePairs(@)]]

\* C32: two requests that agree on normalized path, Accept, Accept-Language,
\* the cookies named wwwhisper-..., Host, connection encryption and
\* X-Forwarded-Proto cause the same authorization query, and nothing else:
\* same method, path, endpoint, headers and cookie pairs, no body, whatever
\* their other headers, other cookies, query string, method and body are.
C32_QueryDependsOnAllowListOnly ==
  (probe.stage = 2 /\ Agree(probe.arg[1].req, probe.arg[2].req)) =>
     Observed(probe.once) = Observed(probe.twice)

(***************************************************************************)
(* Identity on a denial                                                    *)
(***************************************************************************)
\* The authorization query of request r failed without an answer.
Unanswered(r) ==
  /\ subReqs[r] # <<>>
  /\ IsAuthQuery(r, 1)
  /\ subReqs[r][1].failed
  /\ replies[r] = <<>>

\* C33: when the authorization query is denied or fails without an answer the
\* request keeps the identity it came with: req.remoteUser is not set, the
\* application is not invoked, and the response has a User header only when
\* the backend's denial has one, with the backend's value.
C33_NoIdentityOnDenial ==
  \A r \in RequestIds :
    /\ (Active /\ Denied(r)) =>
         /\ req[r].remoteUser = Absent
         /\ res[r].headers["user"] = replies[r][1].headers["user"]
         /\ appCalls[r] = <<>>
    /\ (Active /\ Unanswered(r)) =>
         /\ req[r].remoteUser = Absent
         /\ res[r].headers["user"] = Absent
         /\ appCalls[r] = <<>>

C33_Witness ==
  \E r \in RequestIds :
    /\ Active /\ Denied(r)
    /\ replies[r][1].statusCode = 403
    /\ replies[r][1].headers["user"] = TEST_USER
    /\ res[r].headers["user"] = TEST_USER
    /\ req[r].remoteUser = Absent
    /\ pc[r] = "done"

(***************************************************************************)
(* The request chain, one continuation call at a time                      *)
(***************************************************************************)
MaxNextCalls == 6

\* The incoming requests the chain is run for.
ChainRequests ==
  {[url |-> url, method |-> "GET", headers |-> BaseHeaders,
    encrypted |-> FALSE, remoteUser |-> Absent] : url \in RawUrls}

\* The backend's grants.
ChainGrants == {a \in AuthResponses : isGranted(a.statusCode)}

\* The request as the callback of the authorization query has it when it
\* calls chain(): the query was sent, the grant is in and the user attached.
beforeChain(request, authRes) ==
  LET sent == isAuthorized([St("r1") EXCEPT !.req = request])
  IN attachUser([sent EXCEPT !.replies = Append(@, authRes)],
                authRes.headers["user"])

\* chain(req, res, handlers) before its first next(): idx is -1.  invoked
\* lists the handlers called so far, each with the number of arguments it
\* got, the number of the next() call that called it and the caller of that
\* next(); pending says that the handler called last is about to call next().
chainClosure(st, handlers) ==
  [st |-> st, handlers |-> handlers, idx |-> -1, invoked |-> <<>>,
   calls |-> 0, pending |-> FALSE, threw |-> FALSE]

\* Who calls next() now: chain() itself, or the handler called last.
Caller(c) ==
  IF c.invoked = <<>> THEN "chain" ELSE c.invoked[Len(c.invoked)].handler

\* Mutant: idx starts over at the end of the list.
next_wrapAround(c, by) ==
  LET idx == (c.idx + 1) % Len(c.handlers)
      count == c.calls + 1
      at == [c EXCEPT !.idx = idx, !.calls = count, !.pending = FALSE]
      called(argc) == Append(c.invoked, [handler |-> c.handlers[idx + 1],
                                         argc |-> argc, call |-> count, by |-> by])
  IN IF idx = Len(c.handlers) - 1
     THEN [at EXCEPT !.invoked = called(0), !.st = appNext(c.st)]
     ELSE IF c.handlers[idx + 1] = "injector"
     THEN [at EXCEPT !.invoked = called(3), !.st = injector(c.st), !.pending = TRUE]
     ELSE [at EXCEPT !.invoked = called(3),
                     !.st = authorized(c.st, c.st),
                     !.pending = ~isProxied(c.st.req.url)]

\* next() of chain(), called by `by`.  handlers[idx] of the source is
\* c.handlers[idx + 1].  Past the end of the list handlers[idx] is undefined
\* and calling it throws a TypeError.  The injector calls its next() at once,
\* authorized() calls it unless it proxies the request.
next(c, by) ==
  LET idx == c.idx + 1
      count == c.calls + 1
      at == [c EXCEPT !.idx = idx, !.calls = count, !.pending = FALSE]
      called(argc) == Append(c.invoked, [handler |-> c.handlers[idx + 1],
                                         argc |-> argc, call |-> count, by |-> by])
  IN IF idx = Len(c.handlers) THEN at
     ELSE IF idx = Len(c.handlers) - 1
     THEN [at EXCEPT !.invoked = called(0), !.st = appNext(c.st)]
     ELSE IF idx > Len(c.handlers) THEN [at EXCEPT !.threw = TRUE]
     ELSE IF c.handlers[idx + 1] = "injector"
     THEN [at EXCEPT !.invoked = called(3), !.st = injector(c.st), !.pending = TRUE]
     ELSE [at EXCEPT !.invoked = called(3),
                     !.st = authorized(c.st, c.st),
                     !.pending = ~isProxied(c.st.req.url)]

\* The last handler of the list, the application's continuation, was called.
Finished(c) == c.idx >= Len(c.handlers) - 1

InitChain ==
  /\ PipelineInit
  /\ scenario = "single"
  /\ env.WWWHISPER_URL = HTTP_URL
  /\ \E request \in ChainRequests, authRes \in ChainGrants :
       /\ ~isLoginRequest(UriToString(normalizedUri(request.url)))
       /\ probe = [fn |-> "chain",
                   arg |-> <<beforeChain(request, authRes),
                             callChain(middleware.injectLogoutIframe)>>,
                   once |-> <<>>, twice |-> <<>>, stage |-> 0]

\* The callback of the authorization query calls chain(), which calls next().
ChainStart ==
  /\ probe.stage = 0
  /\ probe' = [probe EXCEPT
                 !.once = next(chainClosure(probe.arg[1], probe.arg[2]), "chain"),
                 !.stage = 1]
  /\ UNCHANGED pipelineVars

\* The handler called last calls the next() it was given.
HandlerNext ==
  /\ probe.stage = 1
  /\ probe.once.pending
  /\ probe' = [probe EXCEPT !.once = next(probe.once, Caller(probe.once))]
  /\ UNCHANGED pipelineVars

\* After the chain has finished somebody calls a next() once more.
NextAgain ==
  /\ probe.stage = 1
  /\ ~probe.once.pending
  /\ Finished(probe.once)
  /\ probe.once.calls < MaxNextCalls
  /\ probe' = [probe EXCEPT !.once = next(probe.once, "again")]
  /\ UNCHANGED pipelineVars

NextChain == ChainStart \/ HandlerNext \/ NextAgain

SpecChain == InitChain /\ [][NextChain]_vars

\* C31: the chain calls its handlers in the order of the list (injector,
\* authorized, the application's next), each at most once, the first from
\* chain() and each later one from the next() its predecessor called; the
\* application's next is called without arguments, the others with req, res
\* and next; calling next() again after the end calls no handler and leaves
\* the request as the chain of the pipeline leaves it.
C31_ChainInOrderOnce ==
  probe.stage = 1 =>
    LET c == probe.once
        h == c.handlers
    IN /\ h \in {<<"injector", "authorized", "next">>, <<"authorized", "next">>}
       /\ Len(c.invoked) <= Len(h)
       /\ \A i \in 1..Len(c.invoked) :
            /\ c.invoked[i].handler = h[i]
            /\ c.invoked[i].call = i
            /\ c.invoked[i].by = (IF i = 1 THEN "chain" ELSE h[i - 1])
            /\ c.invoked[i].argc = (IF i = Len(h) THEN 0 ELSE 3)
       /\ Len(c.st.appCalls) <= 1
       /\ ~c.pending => c.st = chain(probe.arg[1], h)

C31_Witness ==
  /\ probe.stage = 1
  /\ probe.once.handlers = <<"injector", "authorized", "next">>
  /\ Len(probe.once.invoked) = 3
  /\ probe.once.invoked[3].argc = 0
  /\ probe.once.calls = 5
  /\ probe.once.threw
  /\ Len(probe.once.st.appCalls) = 1

====
